---- MODULE Spec2Model ----
(***************************************************************************)
(* Model of the analysis scripts under pysrc/:                             *)
(*   combine_data.py       pooled statistics of sample groups              *)
(*   fit-rat-vessels.py    best-fit distribution search                    *)
(*   translate_metadata.py metadata -> LaTeX translation                   *)
(*   paraview_*.py         pvpython animation scripts                      *)
(*   plot-data.py          growth curves with error bands                  *)
(*   parse_metadata.py     metadata files -> one table                     *)
(*   helper_functions_plot.py  result folder and figure files              *)
(*   forces.py             adhesive and repulsive force curves             *)
(* Each script is run once from the command line; the variable prog says   *)
(* which one a behaviour is a run of.                                      *)
(***************************************************************************)
EXTENDS Integers, Sequences, FiniteSets, TLC

VARIABLES
  prog,      \* which program this behaviour runs
  pc,        \* position of the running program
  \* ---- direct calls of combine_groups
  sA, sB,    \* the samples the groups a and b summarise (<<>> when a, b are arbitrary)
  a, b, c,   \* argument groups
  ab, bc,    \* combine_groups(a, b), combine_groups(b, c)
  left,      \* combine_groups(combine_groups(a, b), c)
  right,     \* combine_groups(a, combine_groups(b, c))
  aa,        \* combine_groups(a, a)
  \* ---- combine_data.py __main__
  data,      \* rows of growth_data.csv, in file order
  i,         \* number of rows iterrows() has yielded
  new_data,  \* the rows collected so far (days, n, mean_1, std_1)
  csv,       \* growth_data_combined.csv: <<"absent">> or <<"file", rows>>
  \* ---- fit-rat-vessels.py main
  df,           \* the rows read from data/vessel-diameter.txt
  frame,        \* the data frame main works on (data in main)
  col,          \* number of the column being fitted (1 diam, 2 length, 3 length/diam)
  ydata,        \* the sample handed to get_best_distribution (y in main)
  dist_results, \* get_best_distribution: the (dist_name, p) pairs so far
  params,       \* get_best_distribution: dist_name -> fitted parameters
  df_data,      \* get_best_distribution: the dist, p and params columns so far
  best,         \* the triple get_best_distribution returned
  hist,         \* the histogram files written
  \* ---- translate_metadata.py main
  flags,        \* FLAGS: inputfile, outputfile
  fs,           \* the file system: path -> <<"absent">>, <<"dir">> or <<"file", content>>
  metadata,     \* the parameters parse_metadata returned
  translated,   \* the dictionary translate_dictionary returned
  printed,      \* the lines printed so far
  \* ---- paraview_tumor_rotation.py, paraview_tumor_slice.py, paraview_vegf_vessels.py
  argv,         \* sys.argv
  args,         \* the arguments main converted for visualize
  loaded,       \* LoadState has been called
  \* ---- plot-data.py
  N,            \* the number of groups trasform_data returned
  results_dir,  \* the folder of the figures: <<"absent">> or <<"dir", files>>
  overwrite,    \* the answer read by input("Overwrite? (y/n) ")
  \* ---- parse_metadata.py main
  folder,       \* the folder that is searched
  files,        \* the files search_metadata returned
  \* ---- forces.py main
  distances,        \* the distances the forces are computed at
  adhesive_forces,  \* AdhesiveForce(d) for d in distances
  repulsive_forces, \* RepulsiveForce(d) for d in distances
  total_forces      \* FLAGS.ca * adhesive_forces + FLAGS.cr * repulsive_forces

callVars == <<sA, sB, a, b, c, ab, bc, left, right, aa>>

scriptVars == <<data, i, new_data, csv>>

fitVars == <<df, frame, col, ydata, dist_results, params, df_data, best, hist>>

trVars == <<flags, fs, metadata, translated, printed>>

forceVars == <<distances, adhesive_forces, repulsive_forces, total_forces>>

moreVars ==
  <<argv, args, loaded, N, results_dir, overwrite, folder, files, forceVars>>

vars == <<prog, pc, callVars, scriptVars, fitVars, trVars, moreVars>>

----------------------------------------------------------------------------
(* Bounds of the model *)

MaxN == 2        \* group counts in direct calls range over 0..MaxN
MaxMean == 1     \* group means in direct calls range over 0..MaxMean
MaxStd == 1      \* group standard deviations in direct calls are 0 or MaxStd
MaxSample == 2   \* samples hold 1..MaxSample values
MaxVal == 2      \* sample values range over 0..MaxVal
MaxRows == 2     \* growth_data.csv holds 0..MaxRows rows
MaxVessels == 2  \* data/vessel-diameter.txt holds 0..MaxVessels rows
SynthSize == 2   \* rows of synthetic data (size=400 in scatter_plot, scaled down)
NumDists == 3    \* candidates fitted (the first NumDists of the 96 dist_names)
MaxP == 2        \* p-values range over 0..MaxP, standing for increasing values in [0, 1]
MaxParams == 2   \* the selected parameter set of a metadata file holds 0..MaxParams keys
MaxArgc == 7     \* a ParaView script is started with 1..MaxArgc command line words
MaxGroups == 7   \* the file plot-data.py reads holds 0..MaxGroups groups (mean_k, std_k)
MaxText == 3     \* a file of braces and other text holds 0..MaxText tokens
Precision == 5   \* significant bits of a floating-point number in forces.py (53 in Python)
MaxFlag == 8     \* the flags r, ra, rn of forces.py range over (16 + 0..MaxFlag) / 64

----------------------------------------------------------------------------
(* Exact arithmetic on Python / numpy floating-point operands.             *)
(* A number is [num, den, np]: the exact value num/den (den > 0, lowest    *)
(* terms), with den = 0 for the non-finite values inf (num = 1), -inf      *)
(* (num = -1) and nan (num = 0).  np tells a numpy.float64 from a Python   *)
(* int or float: the first divides by zero to inf or nan, the second       *)
(* raises ZeroDivisionError.                                               *)

Abs(x) == IF x < 0 THEN 0 - x ELSE x

Sign(x) == IF x < 0 THEN 0 - 1 ELSE IF x > 0 THEN 1 ELSE 0

RECURSIVE GCD(_, _)
GCD(x, y) == IF y = 0 THEN x ELSE GCD(y, x % y)

Norm(p, q, k) ==
  IF q = 0 THEN [num |-> Sign(p), den |-> 0, np |-> k]
  ELSE LET g == GCD(Abs(p), Abs(q))
       IN [num |-> (Sign(q) * p) \div g, den |-> Abs(q) \div g, np |-> k]

PyNum(x) == [num |-> x, den |-> 1, np |-> FALSE]

NpNum(x) == [num |-> x, den |-> 1, np |-> TRUE]

IsNaN(x) == x.den = 0 /\ x.num = 0

IsInf(x) == x.den = 0 /\ x.num # 0

IsFinite(x) == x.den > 0

SameValue(x, y) == x.num = y.num /\ x.den = y.den

Add(x, y) ==
  LET k == x.np \/ y.np
  IN IF IsNaN(x) \/ IsNaN(y) THEN Norm(0, 0, k)
     ELSE IF IsInf(x) /\ IsInf(y)
          THEN (IF x.num = y.num THEN Norm(x.num, 0, k) ELSE Norm(0, 0, k))
     ELSE IF IsInf(x) THEN Norm(x.num, 0, k)
     ELSE IF IsInf(y) THEN Norm(y.num, 0, k)
     ELSE Norm(x.num * y.den + y.num * x.den, x.den * y.den, k)

Neg(x) == [x EXCEPT !.num = 0 - x.num]

Sub(x, y) == Add(x, Neg(y))

Mul(x, y) == Norm(x.num * y.num, x.den * y.den, x.np \/ y.np)

Pow2(x) == Mul(x, x)

\* x / y where at least one operand is a numpy.float64, or y is not zero
Div(x, y) ==
  LET k == x.np \/ y.np
      r == IF IsNaN(y) THEN Norm(0, 0, k)
           ELSE IF y.num = 0 THEN Norm(1, 0, k)
           ELSE IF y.den = 0 THEN Norm(0, 1, k)
           ELSE Norm(y.den * Sign(y.num), Abs(y.num), k)
  IN Mul(x, r)

\* x / y raises ZeroDivisionError: both operands are Python numbers and y = 0
DivRaises(x, y) == ~x.np /\ ~y.np /\ y.num = 0 /\ y.den = 1

Less(x, y) ==
  /\ ~IsNaN(x) /\ ~IsNaN(y)
  /\ IF IsInf(x) \/ IsInf(y)
     THEN (IF IsInf(x) /\ IsInf(y) THEN x.num < y.num
           ELSE IF IsInf(x) THEN x.num < 0 ELSE y.num > 0)
     ELSE x.num * y.den < y.num * x.den

\* numpy.sqrt: always a numpy.float64.  The root of a number is carried by
\* its square: a standard deviation is [num, den, np] of its square, so that
\* std**2 is read back exactly; nan for a negative or nan argument.
Sqrt(x) ==
  IF IsNaN(x) \/ x.num < 0 THEN Norm(0, 0, TRUE)
  ELSE [num |-> x.num, den |-> x.den, np |-> TRUE]

\* s**2 of a value s carried by its square
SqOfRoot(s) == s

\* the standard deviation s >= 0 given as a number (not as a root)
RootOf(s) == [num |-> Pow2(s).num, den |-> Pow2(s).den, np |-> s.np]

----------------------------------------------------------------------------
(* combine_data.py *)

Group(n, mean, std) == [n |-> n, mean |-> mean, std |-> std]

ZeroDivisionError == [exc |-> "ZeroDivisionError"]

Unset == [exc |-> "unset"]

IsGroup(g) == "n" \in DOMAIN g

Raised(g) == g = ZeroDivisionError

\* group1.n * group1.mean + group2.n * group2.mean
weighted_sum(group1, group2) ==
  Add(Mul(PyNum(group1.n), group1.mean), Mul(PyNum(group2.n), group2.mean))

new_mean_unweighted(group1, group2) ==
  Div(Add(group1.mean, group2.mean), PyNum(2))

new_mean(group1, group2) ==
  Div(weighted_sum(group1, group2), PyNum(group1.n + group2.n))

\* (n1 * n2) * (mean1**2 + mean2**2 - 2 * mean1 * mean2)
between(group1, group2) ==
  Mul(PyNum(group1.n * group2.n),
      Sub(Add(Pow2(group1.mean), Pow2(group2.mean)),
          Mul(Mul(PyNum(2), group1.mean), group2.mean)))

\* the sum under the square root, before the division by n1 + n2 - 1
pooled_ss(group1, group2) ==
  Add(Add(Mul(PyNum(group1.n - 1), SqOfRoot(group1.std)),
          Mul(PyNum(group2.n - 1), SqOfRoot(group2.std))),
      Div(between(group1, group2), PyNum(group1.n + group2.n)))

new_std_population(group1, group2) ==
  Sqrt(Div(Add(Add(Mul(PyNum(group1.n), SqOfRoot(group1.std)),
                   Mul(PyNum(group2.n - 1), SqOfRoot(group2.std))),
               Div(between(group1, group2), PyNum(group1.n + group2.n))),
           PyNum(group1.n + group2.n - 1)))

new_std(group1, group2) ==
  Sqrt(Div(pooled_ss(group1, group2), PyNum(group1.n + group2.n - 1)))

new_n_first(group1, group2) == group1.n

new_n(group1, group2) == group1.n + group2.n

\* the divisions of combine_groups, in evaluation order
combine_raises(group1, group2) ==
  \/ DivRaises(weighted_sum(group1, group2), PyNum(group1.n + group2.n))
  \/ DivRaises(between(group1, group2), PyNum(group1.n + group2.n))
  \/ DivRaises(pooled_ss(group1, group2), PyNum(group1.n + group2.n - 1))

combine_groups(group1, group2) ==
  IF combine_raises(group1, group2) THEN ZeroDivisionError
  ELSE Group(new_n(group1, group2), new_mean(group1, group2),
             new_std(group1, group2))

\* a call whose argument expression has already raised does not take place
Call(group1, group2) ==
  IF Raised(group1) THEN group1
  ELSE IF Raised(group2) THEN group2
  ELSE combine_groups(group1, group2)

\* the variables of the programs a behaviour does not run
CallsIdle ==
  /\ sA = <<>> /\ sB = <<>>
  /\ a = Unset /\ b = Unset /\ c = Unset
  /\ ab = Unset /\ bc = Unset /\ left = Unset /\ right = Unset /\ aa = Unset

ScriptIdle == data = <<>> /\ i = 0 /\ new_data = <<>> /\ csv = <<"absent">>

FitIdle ==
  /\ df = <<>> /\ frame = <<>> /\ col = 0 /\ ydata = <<>>
  /\ dist_results = <<>> /\ params = <<>> /\ df_data = <<>>
  /\ best = <<>> /\ hist = {}

TrIdle ==
  /\ flags = <<>> /\ fs = <<>> /\ metadata = <<>> /\ translated = <<>>
  /\ printed = <<>>

ForcesIdle ==
  /\ distances = <<>> /\ adhesive_forces = <<>> /\ repulsive_forces = <<>>
  /\ total_forces = <<>>

MoreIdle ==
  /\ argv = <<>> /\ args = <<>> /\ loaded = FALSE
  /\ N = 0 /\ results_dir = <<"absent">> /\ overwrite = ""
  /\ folder = <<>> /\ files = <<>>
  /\ ForcesIdle

(* ---- direct calls of combine_groups on argument groups ---- *)

Groups(np) ==
  { Group(n, [num |-> m, den |-> 1, np |-> np],
             RootOf([num |-> s, den |-> 1, np |-> np])) :
      n \in 0..MaxN, m \in 0..MaxMean, s \in {0, MaxStd} }

Samples == UNION { [1..len -> 0..MaxVal] : len \in 1..MaxSample }

RECURSIVE SumSeq(_)
SumSeq(s) == IF s = <<>> THEN 0 ELSE Head(s) + SumSeq(Tail(s))

\* sum of the squared deviations of the values of s from p/q, times q*q
RECURSIVE SumSqDev(_, _, _)
SumSqDev(s, p, q) ==
  IF s = <<>> THEN 0
  ELSE (Head(s) * q - p) * (Head(s) * q - p) + SumSqDev(Tail(s), p, q)

\* count, mean and sample variance (n-1 denominator) of a sample of two or
\* more values
SampleMean(s) == Norm(SumSeq(s), Len(s), TRUE)

SampleVar(s) ==
  Norm(SumSqDev(s, SumSeq(s), Len(s)), Len(s) * Len(s) * (Len(s) - 1), TRUE)

\* the groups that hold the statistics of sample s; the squared deviations
\* of a one-value sample are zero whatever number is taken as its deviation
StatsOf(s) ==
  IF Len(s) >= 2 THEN { Group(Len(s), SampleMean(s), Sqrt(SampleVar(s))) }
  ELSE { Group(1, SampleMean(s), RootOf(NpNum(sd))) : sd \in {0, MaxStd} }

InitCalls ==
  /\ prog = "combine_groups"
  /\ pc = "call_ab"
  /\ \/ /\ sA = <<>> /\ sB = <<>>
        /\ \E np \in BOOLEAN :
             /\ a \in Groups(np) /\ b \in Groups(np) /\ c \in Groups(np)
     \/ /\ sA \in Samples /\ sB \in Samples
        /\ a \in StatsOf(sA) /\ b \in StatsOf(sB)
        /\ c = Group(1, NpNum(0), RootOf(NpNum(0)))
  /\ ab = Unset /\ bc = Unset /\ left = Unset /\ right = Unset /\ aa = Unset
  /\ ScriptIdle /\ FitIdle /\ TrIdle /\ MoreIdle

CallAB ==
  /\ prog = "combine_groups" /\ pc = "call_ab"
  /\ ab' = Call(a, b)
  /\ pc' = "call_left"
  /\ UNCHANGED <<prog, sA, sB, a, b, c, bc, left, right, aa, scriptVars, fitVars, trVars, moreVars>>

CallLeft ==
  /\ prog = "combine_groups" /\ pc = "call_left"
  /\ left' = Call(ab, c)
  /\ pc' = "call_bc"
  /\ UNCHANGED <<prog, sA, sB, a, b, c, ab, bc, right, aa, scriptVars, fitVars, trVars, moreVars>>

CallBC ==
  /\ prog = "combine_groups" /\ pc = "call_bc"
  /\ bc' = Call(b, c)
  /\ pc' = "call_right"
  /\ UNCHANGED <<prog, sA, sB, a, b, c, ab, left, right, aa, scriptVars, fitVars, trVars, moreVars>>

CallRight ==
  /\ prog = "combine_groups" /\ pc = "call_right"
  /\ right' = Call(a, bc)
  /\ pc' = "call_aa"
  /\ UNCHANGED <<prog, sA, sB, a, b, c, ab, bc, left, aa, scriptVars, fitVars, trVars, moreVars>>

CallAA ==
  /\ prog = "combine_groups" /\ pc = "call_aa"
  /\ aa' = Call(a, a)
  /\ pc' = "done"
  /\ UNCHANGED <<prog, sA, sB, a, b, c, ab, bc, left, right, scriptVars, fitVars, trVars, moreVars>>

(* ---- combine_data.py run as a script ---- *)

TreatmentDay == 34

GroupSizesFifthSeven == <<7, 8, 7, 7, 7, 7>>

GroupSizes == <<7, 8, 7, 7, 6, 7>>

Days == {TreatmentDay - 1, TreatmentDay, TreatmentDay + 1}

RowMeans == { <<1, 1, 1, 1, 1, 1>>, <<0, 2, 1, 3, 0, 1>> }

RowStds == { <<0, 0, 0, 0, 0, 0>>, <<1, 0, 2, 1, 1, 0>> }

\* a row of growth_data.csv: the index days and the columns mean_k, std_k
Rows == { [days |-> d, mean |-> m, std |-> s] :
            d \in Days, m \in RowMeans, s \in RowStds }

DataFiles == UNION { [1..len -> Rows] : len \in 0..MaxRows }

RowGroup(row, k) ==
  Group(GroupSizes[k], NpNum(row.mean[k]), RootOf(NpNum(row.std[k])))

\* the six groups of a row combined from left to right
FoldRow(row) ==
  LET group1 == RowGroup(row, 1)
      group2 == RowGroup(row, 2)
      group3 == RowGroup(row, 3)
      group4 == RowGroup(row, 4)
      group5 == RowGroup(row, 5)
      group6 == RowGroup(row, 6)
      g12 == combine_groups(group1, group2)
      g123 == combine_groups(g12, group3)
      g1234 == combine_groups(g123, group4)
      g12345 == combine_groups(g1234, group5)
  IN combine_groups(g12345, group6)

StaleCsv == <<"file", <<[days |-> 0]>>>>

InitScript ==
  /\ prog = "combine_data"
  /\ pc = "loop"
  /\ data \in DataFiles
  /\ i = 0
  /\ new_data = <<>>
  /\ csv \in {<<"absent">>, StaleCsv}
  /\ CallsIdle /\ FitIdle /\ TrIdle /\ MoreIdle

\* one pass of the loop body for a row that is kept
Iterate ==
  /\ prog = "combine_data" /\ pc = "loop"
  /\ i < Len(data)
  /\ ~(data[i + 1].days > TreatmentDay)
  /\ LET row == data[i + 1]
         group == FoldRow(row)
     IN new_data' = Append(new_data,
                           [days |-> row.days, n |-> group.n,
                            mean_1 |-> group.mean, std_1 |-> group.std])
  /\ i' = i + 1
  /\ UNCHANGED <<prog, pc, data, csv, callVars, fitVars, trVars, moreVars>>

\* the loop with continue in place of break: the row is skipped
Continue ==
  /\ prog = "combine_data" /\ pc = "loop"
  /\ i < Len(data)
  /\ data[i + 1].days > TreatmentDay
  /\ pc' = "loop"
  /\ i' = i + 1
  /\ UNCHANGED <<prog, data, new_data, csv, callVars, fitVars, trVars, moreVars>>

\* the loop is left at the first row of the treatment phase
Break ==
  /\ prog = "combine_data" /\ pc = "loop"
  /\ i < Len(data)
  /\ data[i + 1].days > TreatmentDay
  /\ pc' = "save"
  /\ i' = i + 1
  /\ UNCHANGED <<prog, data, new_data, csv, callVars, fitVars, trVars, moreVars>>

\* iterrows() is exhausted
EndLoop ==
  /\ prog = "combine_data" /\ pc = "loop"
  /\ i = Len(data)
  /\ pc' = "save"
  /\ UNCHANGED <<prog, scriptVars, callVars, fitVars, trVars, moreVars>>

\* the data frame indexed by days, column n dropped, written as CSV
Save ==
  /\ prog = "combine_data" /\ pc = "save"
  /\ csv' = <<"file", [k \in 1..Len(new_data) |->
                         [days |-> new_data[k].days,
                          mean_1 |-> new_data[k].mean_1,
                          std_1 |-> new_data[k].std_1]]>>
  /\ pc' = "done"
  /\ UNCHANGED <<prog, data, i, new_data, callVars, fitVars, trVars, moreVars>>

NextCalls == CallAB \/ CallLeft \/ CallBC \/ CallRight \/ CallAA

\* combine_groups called on argument groups
SpecCalls == InitCalls /\ [][NextCalls]_vars

InitCombine == InitCalls \/ InitScript

NextCombine ==
  \/ CallAB \/ CallLeft \/ CallBC \/ CallRight \/ CallAA
  \/ Iterate \/ Break \/ EndLoop \/ Save

\* combine_groups called on argument groups or by the script
SpecCombine == InitCombine /\ [][NextCombine]_vars

----------------------------------------------------------------------------
(* fit-rat-vessels.py *)

\* the head of the list of distributions to test
AllDistNames == <<"alpha", "anglit", "arcsine", "argus", "beta", "betaprime">>

dist_names == SubSeq(AllDistNames, 1, NumDists)

\* the parameter tuples a fit may return
ParamVals == {<<1>>, <<2>>}

\* An entry of a data frame column is known by where its value comes from:
\* "file" (read from vessel-diameter.txt, or computed from such values),
\* "rvs" (drawn by st.wald.rvs / st.lognorm.rvs, or computed from such
\* values), "missing" (NaN filled in by pd.concat for an absent column).
FileRow(k) ==
  [length |-> [src |-> "file", row |-> k],
   diam |-> [src |-> "file", row |-> k],
   ratio |-> [src |-> "missing", row |-> k],
   label |-> "Secomb"]

SyntheticRow(k) ==
  [length |-> [src |-> "rvs", row |-> k],
   diam |-> [src |-> "rvs", row |-> k],
   ratio |-> [src |-> "rvs", row |-> k],
   label |-> "synthetic"]

\* get_data: the rows of the file
get_data(nrows) == [k \in 1..nrows |-> FileRow(k)]

\* scatter_plot returns dfc = pd.concat([dfc2, dfc]): the synthetic rows
\* followed by the rows of the file
scatter_plot(rows) == [k \in 1..SynthSize |-> SyntheticRow(k)] \o rows

Columns == <<"diam", "length", "length/diam">>

\* data[column]
Column(rows, name) ==
  [k \in 1..Len(rows) |->
     IF name = "diam" THEN rows[k].diam
     ELSE IF name = "length" THEN rows[k].length
     ELSE rows[k].ratio]

\* the file plot_hist_and_fit saves for a category
HistFile(category) ==
  IF category = "diam" THEN "diam-hist.pdf"
  ELSE IF category = "length/diam" THEN "length-diam-hist.pdf"
  ELSE "length-hist.pdf"

\* max(dist_results, key=lambda item: item[1]): the item at position best,
\* replaced by a later item only when that one's key is greater
RECURSIVE MaxLastFrom(_, _, _)
MaxLastFrom(results, k, bestk) ==
  IF k > Len(results) THEN results[bestk]
  ELSE MaxLastFrom(results, k + 1,
                   IF results[k][2] >= results[bestk][2] THEN k ELSE bestk)

RECURSIVE MaxFrom(_, _, _)
MaxFrom(results, k, bestk) ==
  IF k > Len(results) THEN results[bestk]
  ELSE MaxFrom(results, k + 1,
               IF results[k][2] > results[bestk][2] THEN k ELSE bestk)

max_by_p_last(results) == MaxLastFrom(results, 2, 1)

max_by_p(results) == MaxFrom(results, 2, 1)

\* the parameters returned with the best distribution: params[best_dist]
best_params_last_fitted(prm, best_dist, dfd) == dfd[Len(dfd)].params

best_params(prm, best_dist, dfd) == prm[best_dist]

InitFit ==
  /\ prog = "fit-rat-vessels"
  /\ pc = "get_data"
  /\ \E nrows \in 0..MaxVessels : df = get_data(nrows)
  /\ frame = <<>> /\ col = 0 /\ ydata = <<>>
  /\ dist_results = <<>> /\ params = <<>> /\ df_data = <<>>
  /\ best = <<>> /\ hist = {}
  /\ CallsIdle /\ ScriptIdle /\ TrIdle /\ MoreIdle

\* main: data = get_data(), sample count and volume printed
GetData ==
  /\ prog = "fit-rat-vessels" /\ pc = "get_data"
  /\ frame' = df
  /\ pc' = "scatter_plot"
  /\ UNCHANGED <<prog, df, col, ydata, dist_results, params, df_data, best, hist,
                 callVars, scriptVars, trVars, moreVars>>

\* main: data = scatter_plot(data), then describe and the correlations
ScatterPlot ==
  /\ prog = "fit-rat-vessels" /\ pc = "scatter_plot"
  /\ frame' = scatter_plot(frame)
  /\ col' = 1
  /\ pc' = "column"
  /\ UNCHANGED <<prog, df, ydata, dist_results, params, df_data, best, hist,
                 callVars, scriptVars, trVars, moreVars>>

\* main: y = data[column]; get_best_distribution(y) is entered
StartColumn ==
  /\ prog = "fit-rat-vessels" /\ pc = "column"
  /\ ydata' = Column(frame, Columns[col])
  /\ dist_results' = <<>>
  /\ params' = <<>>
  /\ df_data' = <<>>
  /\ pc' = "fit"
  /\ UNCHANGED <<prog, df, frame, col, best, hist, callVars, scriptVars, trVars, moreVars>>

\* one pass of the loop over dist_names: getattr, fit and kstest return, or
\* one of them raises
FitCandidate ==
  /\ prog = "fit-rat-vessels" /\ pc = "fit"
  /\ Len(df_data) < Len(dist_names)
  /\ LET dist_name == dist_names[Len(df_data) + 1]
     IN \/ \E param \in ParamVals, pval \in 0..MaxP :
             /\ params' = [d \in DOMAIN params \cup {dist_name} |->
                             IF d = dist_name THEN param ELSE params[d]]
             /\ dist_results' = Append(dist_results, <<dist_name, pval>>)
             /\ df_data' = Append(df_data,
                                  [dist |-> dist_name, p |-> pval, params |-> param])
             /\ pc' = "fit"
        \/ /\ pc' = "raised"
           /\ UNCHANGED <<params, dist_results, df_data>>
  /\ UNCHANGED <<prog, df, frame, col, ydata, best, hist, callVars, scriptVars, trVars, moreVars>>

\* get_best_distribution with the loop in try/except: after a raise the best
\* of the candidates fitted so far is returned
SelectBestAfterRaise ==
  /\ prog = "fit-rat-vessels"
  /\ \/ pc = "fit" /\ Len(df_data) = Len(dist_names)
     \/ pc = "raised" /\ Len(df_data) >= 1
  /\ LET chosen == max_by_p(dist_results)
         best_dist == chosen[1]
         best_p == chosen[2]
     IN best' = <<best_dist, best_p, best_params(params, best_dist, df_data)>>
  /\ pc' = "plot"
  /\ UNCHANGED <<prog, df, frame, col, ydata, dist_results, params, df_data, hist,
                 callVars, scriptVars, trVars, moreVars>>

\* get_best_distribution: the best result is selected and returned
SelectBest ==
  /\ prog = "fit-rat-vessels" /\ pc = "fit"
  /\ Len(df_data) = Len(dist_names)
  /\ LET chosen == max_by_p(dist_results)
         best_dist == chosen[1]
         best_p == chosen[2]
     IN best' = <<best_dist, best_p, best_params(params, best_dist, df_data)>>
  /\ pc' = "plot"
  /\ UNCHANGED <<prog, df, frame, col, ydata, dist_results, params, df_data, hist,
                 callVars, scriptVars, trVars, moreVars>>

\* main: plot_hist_and_fit(y, best_dist, best_p, params, category)
PlotHist ==
  /\ prog = "fit-rat-vessels" /\ pc = "plot"
  /\ hist' = hist \cup {HistFile(Columns[col])}
  /\ best' = <<>>
  /\ IF col < Len(Columns)
     THEN col' = col + 1 /\ pc' = "column"
     ELSE col' = col /\ pc' = "done"
  /\ UNCHANGED <<prog, df, frame, ydata, dist_results, params, df_data,
                 callVars, scriptVars, trVars, moreVars>>

NextFit ==
  \/ GetData \/ ScatterPlot \/ StartColumn \/ FitCandidate \/ SelectBest
  \/ PlotHist

SpecFit == InitFit /\ [][NextFit]_vars

----------------------------------------------------------------------------
(* translate_metadata.py *)

InputPath == "metadata"

OutputPath == "metadata.tex"

\* keys of a parameter set: four of the translation table and one it lacks
MetaKeys ==
  {"action_radius_factor", "alpha_H_D_DOX", "initial_concentration_dox",
   "initial_concentration_nutrients", "my_parameter"}

translation_table ==
  [k \in MetaKeys \ {"my_parameter"} |->
     CASE k = "action_radius_factor" -> "r_a"
       [] k = "alpha_H_D_DOX" -> "not used"
       [] k = "initial_concentration_dox" -> "u_n(t=0)"
       [] k = "initial_concentration_nutrients" -> "u_n(t=0)"]

keys_to_remove == {"not used"}

\* file system entries
Absent == <<"absent">>

Directory == <<"dir">>

File(content) == <<"file", content>>

IsFile(entry) == entry[1] = "file"

\* The text of a file is a sequence of tokens. In a metadata file they are
\* the braces, the keys and the scalar values of JSON, and "#" for any other
\* text; commas, colons and white space are left out.
Open == <<"{">>

Close == <<"}">>

Junk == <<"#">>

KeyTok(key) == <<"key", key>>

ValueTok(value) == <<"value", value>>

TextFile(text) == [text |-> text]

\* the JSON text of a dictionary kept as a sequence of (key, value) pairs
\* with scalar values
RECURSIVE ObjectBody(_)
ObjectBody(items) ==
  IF items = <<>> THEN <<>>
  ELSE <<KeyTok(Head(items)[1]), ValueTok(Head(items)[2])>> \o ObjectBody(Tail(items))

ObjectText(items) == <<Open>> \o ObjectBody(items) \o <<Close>>

\* A metadata file as the simulation writes it: a line of text, then one
\* JSON object with a dictionary per parameter group. json = FALSE gives a
\* file whose braces do not hold JSON, filter = FALSE one without the group
\* "bdm::SimParam".
MetaFile(json, filter, items) ==
  TextFile(
    IF ~json THEN <<Junk, Open, Junk, Close>>
    ELSE <<Junk, Open, KeyTok("bdm::Param")>> \o ObjectText(<<>>)
           \o (IF filter THEN <<KeyTok("bdm::SimParam")>> \o ObjectText(items)
               ELSE <<>>)
           \o <<Close>>)

\* lines.find(tok): the 0-based position of the first tok, -1 without one
find(lines, tok) ==
  IF \E k \in DOMAIN lines : lines[k] = tok
  THEN (CHOOSE k \in DOMAIN lines :
          lines[k] = tok /\ \A m \in 1..(k - 1) : lines[m] # tok) - 1
  ELSE -1

\* lines.rfind(tok): the 0-based position of the last tok, -1 without one
rfind(lines, tok) ==
  IF \E k \in DOMAIN lines : lines[k] = tok
  THEN (CHOOSE k \in DOMAIN lines :
          lines[k] = tok /\ \A m \in (k + 1)..Len(lines) : lines[m] # tok) - 1
  ELSE -1

\* a slice bound as Python reads it: a negative one counts from the end
SliceBound(n, len) ==
  IF n < 0 THEN (IF n + len < 0 THEN 0 ELSE n + len)
  ELSE IF n > len THEN len ELSE n

\* lines[start : stop]
Slice(lines, start, stop) ==
  SubSeq(lines, SliceBound(start, Len(lines)) + 1, SliceBound(stop, Len(lines)))

\* the dictionaries of 0..MaxParams distinct keys; the k-th value is k
KeyLists ==
  UNION { { q \in [1..len -> MetaKeys] :
              \A m, n \in 1..len : m # n => q[m] # q[n] } :
          len \in 0..MaxParams }

ParamDicts == { [k \in 1..Len(ks) |-> <<ks[k], k>>] : ks \in KeyLists }

\* the values of --filter
Filters == {"bdm::SimParam", "bdm::Param"}

\* texts of braces and other text, up to MaxText tokens
BraceTexts == UNION { [1..len -> {Open, Close, Junk}] : len \in 0..MaxText }

\* metadata files with text before and after the JSON object, a brace in it
\* or not
Wrapped ==
  { TextFile(before \o MetaFile(TRUE, TRUE, <<<<"action_radius_factor", 1>>>>).text
               \o after) :
      before \in {<<>>, <<Junk>>, <<Open>>}, after \in {<<>>, <<Junk>>, <<Close>>} }

MetaFiles ==
  {MetaFile(FALSE, FALSE, <<>>), MetaFile(TRUE, FALSE, <<>>)}
    \cup { MetaFile(TRUE, TRUE, d) : d \in ParamDicts }
    \cup { TextFile(text) : text \in BraceTexts }
    \cup Wrapped

StaleText == TextFile(<<<<"old">>>>)

\* d[key] = value on a dictionary kept as a sequence of (key, value) pairs:
\* a key already present keeps its place
DictSet(d, key, value) ==
  IF \E k \in 1..Len(d) : d[k][1] = key
  THEN [k \in 1..Len(d) |-> IF d[k][1] = key THEN <<key, value>> ELSE d[k]]
  ELSE Append(d, <<key, value>>)

\* json.loads reads a value and the text left after it, or fails
NoValue == [ok |-> FALSE, value |-> <<>>, rest |-> <<>>]

\* a scalar, or an object: its members up to the closing brace, a repeated
\* key keeping its last value
RECURSIVE ReadValue(_), ReadMembers(_, _)
ReadValue(text) ==
  IF text = <<>> THEN NoValue
  ELSE IF Head(text)[1] = "value"
       THEN [ok |-> TRUE, value |-> Head(text)[2], rest |-> Tail(text)]
  ELSE IF Head(text)[1] = "{" THEN ReadMembers(Tail(text), <<>>)
  ELSE NoValue

ReadMembers(text, acc) ==
  IF text = <<>> THEN NoValue
  ELSE IF Head(text)[1] = "}"
       THEN [ok |-> TRUE, value |-> acc, rest |-> Tail(text)]
  ELSE IF Head(text)[1] = "key"
       THEN LET member == ReadValue(Tail(text))
            IN IF member.ok
               THEN ReadMembers(member.rest, DictSet(acc, Head(text)[2], member.value))
               ELSE NoValue
  ELSE NoValue

\* json.loads(text) raises JSONDecodeError unless the text is one value
loads_raises(text) == ~ReadValue(text).ok \/ ReadValue(text).rest # <<>>

loads(text) == ReadValue(text).value

HasKey(d, key) == \E k \in DOMAIN d : d[k][1] = key

\* d[key]
Lookup(d, key) == d[CHOOSE k \in DOMAIN d : d[k][1] = key][2]

\* parse_metadata of translate_metadata.py on the text of a file: the text
\* from the first "{" to the last "}" is loaded and the filter key looked up
parse_metadata_raises(lines, filter) ==
  LET start == find(lines, Open)
      end == rfind(lines, Close)
      text == Slice(lines, start, end + 1)
  IN loads_raises(text) \/ ~HasKey(loads(text), filter)

parse_metadata_first_group(lines, filter) ==
  LET start == find(lines, Open)
      end == rfind(lines, Close)
      text == Slice(lines, start, end + 1)
  IN loads(text)[1][2]

parse_metadata(lines, filter) ==
  LET start == find(lines, Open)
      end == rfind(lines, Close)
      text == Slice(lines, start, end + 1)
  IN Lookup(loads(text), filter)

RECURSIVE TranslateFrom(_, _, _)
TranslateFrom(parameters, k, acc) ==
  IF k > Len(parameters) THEN acc
  ELSE LET key == parameters[k][1]
           value == parameters[k][2]
       IN IF key \in DOMAIN translation_table
          THEN IF translation_table[key] \in keys_to_remove
               THEN TranslateFrom(parameters, k + 1, acc)
               ELSE TranslateFrom(parameters, k + 1,
                                  DictSet(acc, translation_table[key], value))
          ELSE TranslateFrom(parameters, k + 1, acc)

translate_dictionary(parameters) == TranslateFrom(parameters, 1, <<>>)

\* the tokens written for the items: "$key = value$," and "\n" per item
RECURSIVE EntryText(_)
EntryText(parameters) ==
  IF parameters = <<>> THEN <<>>
  ELSE <<<<"$=$", Head(parameters)[1], Head(parameters)[2]>>, <<",">>, <<"\n">>>>
         \o EntryText(Tail(parameters))

\* size in bytes of a token, as far as seek(-2, os.SEEK_END) tells them apart
TokenBytes(tok) == IF tok[1] \in {",", "\n", "."} THEN 1 ELSE 2

RECURSIVE TextBytes(_)
TextBytes(text) ==
  IF text = <<>> THEN 0 ELSE TokenBytes(Head(text)) + TextBytes(Tail(text))

NotFoundMessage(filename) == <<"Input file not found: ", filename>>

FoundMessage(filename) == <<"Input file: ", filename>>

InitTranslate ==
  /\ prog = "translate_metadata"
  /\ pc = "check"
  /\ \E out \in {OutputPath, InputPath}, group \in Filters :
       flags = [inputfile |-> InputPath, outputfile |-> out, filter |-> group]
  /\ \E input \in {Absent, Directory} \cup { File(m) : m \in MetaFiles },
        output \in {Absent, File(StaleText)} :
       fs = [path \in {InputPath, OutputPath} |->
               IF path = InputPath THEN input ELSE output]
  /\ metadata = <<"unparsed">>
  /\ translated = <<>>
  /\ printed = <<>>
  /\ CallsIdle /\ ScriptIdle /\ FitIdle /\ MoreIdle

\* main: the input file is looked up; a missing one ends the run
CheckInputNoReturn ==
  /\ prog = "translate_metadata" /\ pc = "check"
  /\ printed' = Append(printed,
       IF ~IsFile(fs[flags.inputfile]) THEN NotFoundMessage(flags.inputfile)
       ELSE FoundMessage(flags.inputfile))
  /\ pc' = "parse"
  /\ UNCHANGED <<prog, flags, fs, metadata, translated, callVars, scriptVars, fitVars, moreVars>>

CheckInput ==
  /\ prog = "translate_metadata" /\ pc = "check"
  /\ IF ~IsFile(fs[flags.inputfile])
     THEN /\ printed' = Append(printed, NotFoundMessage(flags.inputfile))
          /\ pc' = "done"
     ELSE /\ printed' = Append(printed, FoundMessage(flags.inputfile))
          /\ pc' = "parse"
  /\ UNCHANGED <<prog, flags, fs, metadata, translated, callVars, scriptVars, fitVars, moreVars>>

\* main: metadata = parse_metadata(filename, FLAGS.filter); open, json.loads
\* and the lookup of the filter key may raise
ParseMetadata ==
  /\ prog = "translate_metadata" /\ pc = "parse"
  /\ LET entry == fs[flags.inputfile]
     IN IF IsFile(entry) /\ ~parse_metadata_raises(entry[2].text, flags.filter)
        THEN /\ metadata' = <<"parsed", parse_metadata(entry[2].text, flags.filter)>>
             /\ pc' = "translate"
        ELSE metadata' = metadata /\ pc' = "raised"
  /\ UNCHANGED <<prog, flags, fs, translated, printed, callVars, scriptVars, fitVars, moreVars>>

\* main: translated = translate_dictionary(metadata)
Translate ==
  /\ prog = "translate_metadata" /\ pc = "translate"
  /\ translated' = translate_dictionary(metadata[2])
  /\ pc' = "write"
  /\ UNCHANGED <<prog, flags, fs, metadata, printed, callVars, scriptVars, fitVars, moreVars>>

AppendEntries ==
  /\ prog = "translate_metadata" /\ pc = "write"
  /\ fs' = [fs EXCEPT ![flags.outputfile] =
              File(TextFile((IF IsFile(@) THEN @[2].text ELSE <<>>) \o EntryText(translated)))]
  /\ pc' = "replace"
  /\ UNCHANGED <<prog, flags, metadata, translated, printed, callVars, scriptVars, fitVars, moreVars>>

\* write_dictionary_to_file: the file is opened for writing (created or
\* truncated) and the entries are written
WriteEntries ==
  /\ prog = "translate_metadata" /\ pc = "write"
  /\ fs' = [fs EXCEPT ![flags.outputfile] = File(TextFile(EntryText(translated)))]
  /\ pc' = "replace"
  /\ UNCHANGED <<prog, flags, metadata, translated, printed, callVars, scriptVars, fitVars, moreVars>>

ReplaceLastByte ==
  /\ prog = "translate_metadata" /\ pc = "replace"
  /\ LET text == fs[flags.outputfile][2].text
     IN IF TextBytes(text) < 1
        THEN fs' = fs /\ pc' = "raised"
        ELSE /\ fs' = [fs EXCEPT ![flags.outputfile] =
                         File(TextFile(SubSeq(text, 1, Len(text) - 1) \o <<<<".">>>>))]
             /\ pc' = "done"
  /\ UNCHANGED <<prog, flags, metadata, translated, printed, callVars, scriptVars, fitVars, moreVars>>

\* write_dictionary_to_file: seek(-2, os.SEEK_END), truncate, write "."
ReplaceLastComma ==
  /\ prog = "translate_metadata" /\ pc = "replace"
  /\ LET text == fs[flags.outputfile][2].text
     IN IF TextBytes(text) < 2
        THEN fs' = fs /\ pc' = "raised"
        ELSE /\ fs' = [fs EXCEPT ![flags.outputfile] =
                         File(TextFile(SubSeq(text, 1, Len(text) - 2) \o <<<<".">>>>))]
             /\ pc' = "done"
  /\ UNCHANGED <<prog, flags, metadata, translated, printed, callVars, scriptVars, fitVars, moreVars>>

NextTranslate ==
  \/ CheckInput \/ ParseMetadata \/ Translate \/ WriteEntries \/ ReplaceLastComma

SpecTranslate == InitTranslate /\ [][NextTranslate]_vars

----------------------------------------------------------------------------
(* paraview_tumor_rotation.py, paraview_tumor_slice.py, paraview_vegf_vessels.py *)

ParaViewScripts ==
  {"paraview_tumor_rotation", "paraview_tumor_slice", "paraview_vegf_vessels"}

\* the number of command line words main asks for
Argc(script) == IF script = "paraview_vegf_vessels" THEN 6 ELSE 5

\* the words given for the numeric arguments
ArgWords == {"0", "1", "x"}

\* int(word) raises ValueError unless the word is an integer literal
IsIntLiteral(word) == word \in {"0", "1"}

int(word) == IF word = "0" THEN 0 ELSE 1

bool(number) == number # 0

StateFile == "state.pvsm"

Path(filename) == <<filename>>

Folder(content) == <<"dir", content>>

exists(entry) == entry # Absent

\* FrameWindow=[0, 99]
LastFrame == 99

\* the frames SaveAnimation writes: img.0000.png .. img.0099.png
Frames == 0..LastFrame

\* the hard coded folder names of visualize
OutputNames(script) ==
  CASE script = "paraview_tumor_rotation" -> <<"rotation">>
    [] script = "paraview_tumor_slice" -> <<"slice">>
    [] script = "paraview_vegf_vessels" -> <<"vessel_vegf", "vessel">>

\* name + "_bg{}_cb{}_ax{}".format(transparent_background,
\* int(show_color_bar), show_orientation_axes), next to the state file
output_folder(name, v) ==
  <<name, v.transparent_background, IF v.show_color_bar THEN 1 ELSE 0,
    v.show_orientation_axes>>

PvPaths(script) ==
  {Path(StateFile)} \cup
  { <<OutputNames(script)[k], bg, cb, ax>> :
      k \in DOMAIN OutputNames(script), bg \in 0..1, cb \in 0..1, ax \in 0..1 }

\* the variables the ParaView scripts leave alone
notParaView ==
  <<flags, metadata, translated, N, results_dir, overwrite, folder, files,
    callVars, scriptVars, fitVars, forceVars>>

\* sys.argv[k]
Arg(k) == argv[k + 1]

Usage(script) ==
  IF script = "paraview_vegf_vessels"
  THEN "Usage: visualize.py <filename> <transparent_background> <show_orientation_axes> <show_color_bar> <overwrite>"
  ELSE IF script = "paraview_tumor_slice"
  THEN "Usage: visualize.py <state_file> <transparent_background> <show_orientation_axes> <show_color_bar>"
  ELSE "Usage: visualize.py <filename> <transparent_background> <show_orientation_axes> <show_color_bar>"

DoesNotExist(filename) == <<"File ", filename, " does not exist">>

InitParaView ==
  /\ prog \in ParaViewScripts
  /\ pc = "main"
  /\ \E argc \in 1..MaxArgc, words \in [3..MaxArgc -> ArgWords] :
       argv = [k \in 1..argc |->
                 IF k = 1 THEN prog ELSE IF k = 2 THEN StateFile ELSE words[k]]
  /\ \E state \in {Absent, Directory, File("state")},
        old \in [DOMAIN OutputNames(prog) -> {Absent, Folder({0})}] :
       fs = [path \in PvPaths(prog) |->
               IF path = Path(StateFile) THEN state
               ELSE old[CHOOSE k \in DOMAIN old : OutputNames(prog)[k] = path[1]]]
  /\ args = <<>> /\ loaded = FALSE /\ printed = <<>>
  /\ flags = <<>> /\ metadata = <<>> /\ translated = <<>>
  /\ N = 0 /\ results_dir = <<"absent">> /\ overwrite = ""
  /\ folder = <<>> /\ files = <<>>
  /\ CallsIdle /\ ScriptIdle /\ FitIdle /\ ForcesIdle

\* main: a wrong number of words prints the usage and returns
CheckArgc ==
  /\ prog \in ParaViewScripts /\ pc = "main"
  /\ IF Len(argv) # Argc(prog)
     THEN printed' = Append(printed, Usage(prog)) /\ pc' = "done"
     ELSE printed' = printed /\ pc' = "convert"
  /\ UNCHANGED <<prog, fs, argv, args, loaded, notParaView>>

\* main: filename = argv[1]; transparent_background = int(argv[2]); ...
\* int raises ValueError on a word that is no integer literal
ConvertArgs ==
  /\ prog \in ParaViewScripts /\ pc = "convert"
  /\ IF \E k \in 2..(Argc(prog) - 1) : ~IsIntLiteral(Arg(k))
     THEN args' = args /\ pc' = "raised"
     ELSE /\ args' =
               IF prog = "paraview_vegf_vessels"
               THEN [filename |-> Arg(1),
                     transparent_background |-> int(Arg(2)),
                     show_orientation_axes |-> int(Arg(3)),
                     show_color_bar |-> bool(int(Arg(4))),
                     overwrite |-> bool(int(Arg(5)))]
               ELSE [filename |-> Arg(1),
                     transparent_background |-> int(Arg(2)),
                     show_orientation_axes |-> int(Arg(3)),
                     show_color_bar |-> bool(int(Arg(4)))]
          /\ pc' = "isfile"
  /\ UNCHANGED <<prog, fs, argv, loaded, printed, notParaView>>

\* main: the state file is looked up; a missing one ends the run
CheckFileNoReturn ==
  /\ prog \in ParaViewScripts /\ pc = "isfile"
  /\ printed' =
       IF ~IsFile(fs[Path(args.filename)])
       THEN Append(printed, DoesNotExist(args.filename)) ELSE printed
  /\ pc' = "visualize"
  /\ UNCHANGED <<prog, fs, argv, args, loaded, notParaView>>

CheckFile ==
  /\ prog \in ParaViewScripts /\ pc = "isfile"
  /\ IF ~IsFile(fs[Path(args.filename)])
     THEN printed' = Append(printed, DoesNotExist(args.filename)) /\ pc' = "done"
     ELSE printed' = printed /\ pc' = "visualize"
  /\ UNCHANGED <<prog, fs, argv, args, loaded, notParaView>>

\* what visualize prints before it loads the state
VisualizeHeader(script, v) ==
  <<<<"<pvpython> Transparent background: ", v.transparent_background>>,
    <<"<pvpython> Show orientation axes: ", v.show_orientation_axes>>,
    <<"<pvpython> Show color bar: ", v.show_color_bar>>>> \o
  (IF script = "paraview_vegf_vessels"
   THEN <<<<"<pvpython> Overwrite: ", v.overwrite>>>>
   ELSE <<"<pvpython> Folder: ", <<"<pvpython> File: ", v.filename>>,
          <<"<pvpython> Loading state: ", v.filename>>>>)

\* visualize: the render view is deleted and LoadState(filename) is called
LoadState ==
  /\ prog \in ParaViewScripts /\ pc = "visualize"
  /\ loaded' = TRUE
  /\ printed' = printed \o VisualizeHeader(prog, args) \o
       (IF prog = "paraview_vegf_vessels" THEN <<>>
        ELSE <<"<pvpython> Loading state done..">>)
  /\ pc' = "create_folder"
  /\ UNCHANGED <<prog, fs, argv, args, notParaView>>

\* visualize of the rotation and slice scripts: the animation folder is
\* created, an existing one is deleted first
CreateFolder ==
  /\ prog \in {"paraview_tumor_rotation", "paraview_tumor_slice"}
  /\ pc = "create_folder"
  /\ LET animation_folder == output_folder(OutputNames(prog)[1], args)
     IN /\ printed' = printed \o
             (IF ~exists(fs[animation_folder])
              THEN <<"<pvpython> Create folder ..">>
              ELSE <<"<pvpython> Create folder ..",
                     "<pvpython> Folder already exists ..",
                     "<pvpython> Delete folder ..",
                     "<pvpython> Create folder ..">>)
        /\ fs' = [fs EXCEPT ![animation_folder] = Folder({})]
  /\ pc' = "save"
  /\ UNCHANGED <<prog, argv, args, loaded, notParaView>>

\* visualize of the vessel script: existing folders end the run unless
\* overwrite is set; otherwise they are deleted and both folders are created
CreateFolders ==
  /\ prog = "paraview_vegf_vessels" /\ pc = "create_folder"
  /\ LET output_folder_1 == output_folder(OutputNames(prog)[1], args)
         output_folder_2 == output_folder(OutputNames(prog)[2], args)
         create == <<"<pvpython> Create folder ..">>
     IN IF exists(fs[output_folder_1]) /\ ~args.overwrite
        THEN /\ printed' = printed \o create \o
                  <<"<pvpython> folder 'vessel_vegf' already exists, aborting">>
             /\ fs' = fs /\ pc' = "done"
        ELSE IF exists(fs[output_folder_2]) /\ ~args.overwrite
        THEN /\ printed' = printed \o create \o
                  <<"<pvpython> folder 'vessel' already exists, aborting">>
             /\ fs' = fs /\ pc' = "done"
        ELSE /\ printed' = printed \o create
             /\ fs' = [fs EXCEPT ![output_folder_1] = Folder({}),
                                 ![output_folder_2] = Folder({})]
             /\ pc' = "save"
  /\ UNCHANGED <<prog, argv, args, loaded, notParaView>>

\* visualize: SaveAnimation writes the frames of the frame window
SaveAnimation ==
  /\ prog \in ParaViewScripts /\ pc = "save"
  /\ fs' = [fs EXCEPT ![output_folder(OutputNames(prog)[1], args)] = Folder(Frames)]
  /\ printed' = Append(printed,
       IF prog = "paraview_vegf_vessels" THEN "<pvpython> Save animation 1 .."
       ELSE "<pvpython> Saving animation ..")
  /\ pc' = IF prog = "paraview_vegf_vessels" THEN "save_2" ELSE "done"
  /\ UNCHANGED <<prog, argv, args, loaded, notParaView>>

\* visualize of the vessel script: the second animation
SaveAnimation2 ==
  /\ prog = "paraview_vegf_vessels" /\ pc = "save_2"
  /\ fs' = [fs EXCEPT ![output_folder(OutputNames(prog)[2], args)] = Folder(Frames)]
  /\ printed' = Append(printed, "<pvpython> Save animation 2 ..")
  /\ pc' = "done"
  /\ UNCHANGED <<prog, argv, args, loaded, notParaView>>

NextParaView ==
  \/ CheckArgc \/ ConvertArgs \/ CheckFile \/ LoadState
  \/ CreateFolder \/ CreateFolders \/ SaveAnimation \/ SaveAnimation2

SpecParaView == InitParaView /\ [][NextParaView]_vars

----------------------------------------------------------------------------
(* plot-data.py *)

\* "{stem}_{k}".format(k): the column names mean_k, std_k, lower_k, upper_k
ColumnName(stem, k) == <<stem, k>>

\* the cells of a row of growth_data.csv: two patterns of means and
\* standard deviations over the groups
RowPatterns == {"flat", "varied"}

MeanCell(pattern, k) == NpNum(IF pattern = "flat" THEN 1 ELSE k)

StdCell(pattern, k) == NpNum(IF pattern = "flat" THEN 0 ELSE (k % 3) - 1)

PlotRows == { [days |-> d, pattern |-> p] : d \in Days, p \in RowPatterns }

\* the columns mean_1, std_1, ..., mean_groups, std_groups in file order
GroupColumns(groups) ==
  [k \in 1..(2 * groups) |->
     IF k % 2 = 1 THEN ColumnName("mean", (k + 1) \div 2)
     ELSE ColumnName("std", k \div 2)]

\* read_data(filename, index_col="days"): a data frame is its column names
\* in order, its index and the cells of every column
DataFrame(groups, rows) ==
  [columns |-> GroupColumns(groups),
   index |-> [r \in DOMAIN rows |-> rows[r].days],
   values |-> [name \in { GroupColumns(groups)[k] : k \in 1..(2 * groups) } |->
                 [r \in DOMAIN rows |->
                    IF name[1] = "mean" THEN MeanCell(rows[r].pattern, name[2])
                    ELSE StdCell(rows[r].pattern, name[2])]]]

PlotFrames ==
  { DataFrame(groups, rows) :
      groups \in 0..MaxGroups,
      rows \in UNION { [1..len -> PlotRows] : len \in 0..MaxRows } }

HasColumn(frm, name) == \E k \in DOMAIN frm.columns : frm.columns[k] = name

\* data[name] = cells: an existing column is replaced, a new one is appended
SetColumn(frm, name, cells) ==
  [columns |-> IF HasColumn(frm, name) THEN frm.columns
               ELSE Append(frm.columns, name),
   index |-> frm.index,
   values |-> [key \in DOMAIN frm.values \cup {name} |->
                 IF key = name THEN cells ELSE frm.values[key]]]

\* data["mean_k"] - data["std_k"] and data["mean_k"] + data["std_k"]
Lower(frm, k) ==
  [r \in DOMAIN frm.index |->
     Sub(frm.values[ColumnName("mean", k)][r], frm.values[ColumnName("std", k)][r])]

Upper(frm, k) ==
  [r \in DOMAIN frm.index |->
     Add(frm.values[ColumnName("mean", k)][r], frm.values[ColumnName("std", k)][r])]

\* the loop of trasform_data from group k on
RECURSIVE AddBands(_, _, _)
AddBands(frm, k, groups) ==
  IF k > groups THEN frm
  ELSE LET with_lower == SetColumn(frm, ColumnName("lower", k), Lower(frm, k))
           with_upper == SetColumn(with_lower, ColumnName("upper", k),
                                   Upper(with_lower, k))
       IN AddBands(with_upper, k + 1, groups)

\* data["mean_k"] or data["std_k"] raises KeyError for some k of the loop
transform_raises(frm) ==
  \E k \in 1..(Len(frm.columns) \div 2) :
    ~HasColumn(frm, ColumnName("mean", k)) \/ ~HasColumn(frm, ColumnName("std", k))

trasform_data_all_columns(frm) ==
  <<Len(frm.columns), AddBands(frm, 1, Len(frm.columns) \div 2)>>

\* trasform_data: N = int(len(data.columns) / 2) and the transformed data
trasform_data(frm) ==
  <<Len(frm.columns) \div 2, AddBands(frm, 1, Len(frm.columns) \div 2)>>

\* str(k) for the group numbers
str(k) == <<"1", "2", "3", "4", "5", "6", "7", "8", "9">>[k]

\* the hard coded treatment times of plot_data
treatment ==
  [group \in {"1", "2", "3", "4", "5", "6"} |->
     CASE group = "1" -> [DOX |-> <<>>, TRA |-> <<>>, SAL |-> <<35, 38, 39>>]
       [] group = "2" -> [DOX |-> <<39>>, TRA |-> <<>>, SAL |-> <<35, 38>>]
       [] group = "3" -> [DOX |-> <<>>, TRA |-> <<35, 38>>, SAL |-> <<39>>]
       [] group = "4" -> [DOX |-> <<35>>, TRA |-> <<36, 39>>, SAL |-> <<>>]
       [] group = "5" -> [DOX |-> <<39>>, TRA |-> <<35, 38>>, SAL |-> <<>>]
       [] group = "6" -> [DOX |-> <<35, 38>>, TRA |-> <<35, 38>>, SAL |-> <<>>]]

\* "growth_group_{}.png".format(k)
FigureName(k) == <<"growth_group", k>>

\* the figure of group k: the mean line, the band and the treatment lines
Figure(frm, k) ==
  [x |-> frm.index,
   mean |-> frm.values[ColumnName("mean", k)],
   lower |-> frm.values[ColumnName("lower", k)],
   upper |-> frm.values[ColumnName("upper", k)],
   lines |-> treatment[str(k)]]

\* a figure left by an earlier run on other data
OldFigure ==
  [x |-> <<0>>, mean |-> <<NpNum(0)>>, lower |-> <<NpNum(0)>>,
   upper |-> <<NpNum(0)>>, lines |-> treatment["1"]]

\* the states results/data-visualization-2 is found in
ResultsDirs ==
  {Absent, Folder(<<>>),
   Folder([name \in {FigureName(1), FigureName(2)} |-> OldFigure])}

\* what the user may type at the prompt
Answers == {"y", "n", "Y", "yes", ""}

\* the variables plot-data.py leaves alone
notPlot ==
  <<new_data, csv, flags, fs, metadata, translated, printed,
    argv, args, loaded, folder, files, callVars, fitVars, forceVars>>

InitPlot ==
  /\ prog = "plot-data"
  /\ pc = "transform"
  /\ data \in PlotFrames
  /\ i = 0 /\ N = 0
  /\ results_dir \in ResultsDirs
  /\ overwrite = ""
  /\ new_data = <<>> /\ csv = <<"absent">>
  /\ argv = <<>> /\ args = <<>> /\ loaded = FALSE
  /\ folder = <<>> /\ files = <<>>
  /\ CallsIdle /\ FitIdle /\ TrIdle /\ ForcesIdle

\* __main__: N, data = trasform_data(data)
TransformData ==
  /\ prog = "plot-data" /\ pc = "transform"
  /\ IF transform_raises(data)
     THEN UNCHANGED <<N, data>> /\ pc' = "raised"
     ELSE /\ N' = trasform_data(data)[1]
          /\ data' = trasform_data(data)[2]
          /\ pc' = "create_folder"
  /\ UNCHANGED <<prog, i, results_dir, overwrite, notPlot>>

\* create_folder without the prompt: an existing folder is used as it is
create_folder_no_prompt ==
  /\ prog = "plot-data" /\ pc = "create_folder"
  /\ results_dir' = (IF ~exists(results_dir) THEN Folder(<<>>) ELSE results_dir)
  /\ i' = 1 /\ pc' = "plot"
  /\ UNCHANGED <<prog, data, N, overwrite, notPlot>>

\* plot_data, create_folder: a missing folder is created; for an existing
\* one the user is asked and the process waits in input()
create_folder ==
  /\ prog = "plot-data" /\ pc = "create_folder"
  /\ IF ~exists(results_dir)
     THEN results_dir' = Folder(<<>>) /\ i' = 1 /\ pc' = "plot"
     ELSE results_dir' = results_dir /\ i' = i /\ pc' = "input"
  /\ UNCHANGED <<prog, data, N, overwrite, notPlot>>

\* create_folder with any answer taken as consent
AnswerOverwriteAlways ==
  /\ prog = "plot-data" /\ pc = "input"
  /\ \E answer \in Answers :
       /\ overwrite' = answer
       /\ i' = 1 /\ pc' = "plot"
  /\ UNCHANGED <<prog, data, N, results_dir, notPlot>>

\* create_folder: the user's answer arrives; "y" goes on, any other answer
\* ends the process with sys.exit()
AnswerOverwrite ==
  /\ prog = "plot-data" /\ pc = "input"
  /\ \E answer \in Answers :
       /\ overwrite' = answer
       /\ IF answer = "y"
          THEN i' = 1 /\ pc' = "plot"
          ELSE i' = i /\ pc' = "exited"
  /\ UNCHANGED <<prog, data, N, results_dir, notPlot>>

\* plot_data: one pass of the loop; a missing column or a group without
\* treatment times raises KeyError, otherwise the figure is saved
PlotGroup ==
  /\ prog = "plot-data" /\ pc = "plot"
  /\ i <= N
  /\ IF \/ ~HasColumn(data, ColumnName("mean", i))
        \/ ~HasColumn(data, ColumnName("lower", i))
        \/ ~HasColumn(data, ColumnName("upper", i))
        \/ str(i) \notin DOMAIN treatment
     THEN UNCHANGED <<results_dir, i>> /\ pc' = "raised"
     ELSE /\ results_dir' =
               Folder([name \in DOMAIN results_dir[2] \cup {FigureName(i)} |->
                         IF name = FigureName(i) THEN Figure(data, i)
                         ELSE results_dir[2][name]])
          /\ i' = i + 1
          /\ pc' = "plot"
  /\ UNCHANGED <<prog, data, N, overwrite, notPlot>>

\* plot_data: range(1, N + 1) is exhausted
EndPlot ==
  /\ prog = "plot-data" /\ pc = "plot"
  /\ i > N
  /\ pc' = "done"
  /\ UNCHANGED <<prog, data, i, N, results_dir, overwrite, notPlot>>

NextPlot ==
  \/ TransformData \/ create_folder \/ AnswerOverwrite \/ PlotGroup \/ EndPlot

SpecPlot == InitPlot /\ [][NextPlot]_vars

(* ---- plot-data.py on the file combine_data.py wrote ---- *)

\* the columns combine_data.py writes next to the index days
CombinedColumns == <<"mean_1", "std_1">>

\* a column name of the combined file as stem and group number
ParseColumn(name) ==
  IF name = "mean_1" THEN ColumnName("mean", 1) ELSE ColumnName("std", 1)

\* the whole part of the square root of a natural number, by bisection
RECURSIVE ISqrtIn(_, _, _)
ISqrtIn(n, lo, hi) ==
  IF lo >= hi THEN lo
  ELSE LET mid == (lo + hi + 1) \div 2
       IN IF mid * mid <= n THEN ISqrtIn(n, mid, hi) ELSE ISqrtIn(n, lo, mid - 1)

\* The number written for a standard deviation that is carried by its
\* square num/den: the root, rounded down to a multiple of 1/den (46340 is
\* the largest whole number whose square is below 2^31).
FloatRoot(s) ==
  IF ~IsFinite(s) THEN s
  ELSE LET n == s.num * s.den
       IN Norm(ISqrtIn(n, 0, IF n < 46340 THEN n ELSE 46340), s.den, TRUE)

\* read_data(growth_data_combined.csv, index_col="days")
read_combined(rows) ==
  [columns |-> [k \in DOMAIN CombinedColumns |-> ParseColumn(CombinedColumns[k])],
   index |-> [r \in DOMAIN rows |-> rows[r].days],
   values |-> [name \in { ParseColumn(CombinedColumns[k]) : k \in DOMAIN CombinedColumns } |->
                 [r \in DOMAIN rows |->
                    IF name[1] = "std" THEN FloatRoot(rows[r].std_1)
                    ELSE rows[r].mean_1]]]

\* __main__ of plot-data.py with filename set to growth_data_combined.csv,
\* started after combine_data.py has ended
ReadMerged ==
  /\ prog = "combine_data" /\ pc = "done"
  /\ prog' = "plot-data"
  /\ data' = read_combined(csv[2])
  /\ results_dir' \in ResultsDirs
  /\ i' = 0
  /\ pc' = "transform"
  /\ UNCHANGED <<N, overwrite, notPlot>>

NextMerged ==
  \/ Iterate \/ Break \/ EndLoop \/ Save
  \/ ReadMerged
  \/ TransformData \/ create_folder \/ AnswerOverwrite \/ PlotGroup \/ EndPlot

\* combine_data.py, then plot-data.py on its output
SpecMerged == InitScript /\ [][NextMerged]_vars

----------------------------------------------------------------------------
(* parse_metadata.py *)

\* a flag without a value, and a value given
None == <<>>

Some(value) == <<value>>

\* a path: absolute or relative, and its components
PathOf(absolute, parts) == [abs |-> absolute, parts |-> parts]

\* os.path.join(p, q): an absolute q replaces p
join(p, q) == IF q.abs THEN q ELSE PathOf(p.abs, p.parts \o q.parts)

\* os.path.normpath on the components of an absolute path
RECURSIVE Collapse(_, _)
Collapse(parts, acc) ==
  IF parts = <<>> THEN acc
  ELSE IF Head(parts) = ".."
       THEN Collapse(Tail(parts),
                     IF acc = <<>> THEN acc ELSE SubSeq(acc, 1, Len(acc) - 1))
       ELSE Collapse(Tail(parts), Append(acc, Head(parts)))

\* the working directory of the run
Cwd == PathOf(TRUE, <<"home">>)

abspath(p) == PathOf(TRUE, Collapse((IF p.abs THEN p ELSE join(Cwd, p)).parts, <<>>))

\* os.path.dirname(os.path.realpath(__file__))
dir_path == PathOf(TRUE, <<"angiogenesis", "pysrc">>)

\* values of --folder (relative to the project source) and of --absfolder
FolderFlags == {PathOf(FALSE, <<"output">>), PathOf(FALSE, <<"results">>)}

AbsFolderFlags ==
  {None, Some(PathOf(TRUE, <<"data", "runs">>)), Some(PathOf(FALSE, <<"runs">>))}

\* the files of the runs, and the file main writes
RunOne == <<"angiogenesis", "output", "run1", "metadata">>

RunTwo == <<"angiogenesis", "output", "run2", "sim_metadata">>

\* the files of two simulations of one run, each in a folder of its own
NestedOne == <<"angiogenesis", "output", "run3", "output_a", "metadata">>

NestedTwo == <<"angiogenesis", "output", "run3", "output_b", "metadata">>

Elsewhere == <<"data", "runs", "metadata">>

Notes == <<"angiogenesis", "output", "run1", "metadata.json">>

\* "{}.csv".format(name)
CsvName(name) == IF name = "metadata" THEN "metadata.csv" ELSE "table.csv"

\* os.path.join(dir_path, "..", "{}.csv".format(str(FLAGS.filename)))
SavePath(name) ==
  abspath(join(join(dir_path, PathOf(FALSE, <<"..">>)),
               PathOf(FALSE, <<CsvName(name)>>))).parts

\* fnmatch of a file name against "*metadata"
MatchesMetadata(name) == name \in {"metadata", "sim_metadata"}

IsUnder(parts, dir) ==
  Len(parts) > Len(dir) /\ SubSeq(parts, 1, Len(dir)) = dir

\* Path(folder).rglob("*metadata"), as absolute paths
Found(files_at, dir) ==
  { parts \in DOMAIN files_at :
      /\ exists(files_at[parts])
      /\ IsUnder(parts, abspath(dir).parts)
      /\ MatchesMetadata(parts[Len(parts)]) }

\* the orders in which a set of paths can be listed
Listings(paths) ==
  { q \in [1..Cardinality(paths) -> paths] :
      \A m, n \in DOMAIN q : m # n => q[m] # q[n] }

\* a cell without a value: a key the file lacks, or JSON null
NaN == None

\* the parameter sets of a metadata file: each of the two keys is absent or
\* holds "1", "2" or null
PmKeys == <<"diffusion", "seed">>

PmValues == {Some("1"), Some("2"), NaN}

PmDicts ==
  { SelectSeq([k \in DOMAIN PmKeys |-> <<PmKeys[k], pick[k]>>],
              LAMBDA item : item[2] # <<"absent">>) :
      pick \in [DOMAIN PmKeys -> PmValues \cup {<<"absent">>}] }

PmFiles ==
  {MetaFile(FALSE, FALSE, <<>>), MetaFile(TRUE, FALSE, <<>>)}
    \cup { MetaFile(TRUE, TRUE, d) : d \in PmDicts }

\* files of braces and other text, and a metadata file with text around the
\* JSON object
PmTexts ==
  { TextFile(text) : text \in BraceTexts }
    \cup { TextFile(before \o MetaFile(TRUE, TRUE, <<<<"seed", Some("1")>>>>).text
                      \o after) :
             before \in {<<>>, <<Junk>>, <<Open>>}, after \in {<<>>, <<Junk>>, <<Close>>} }

\* the text of a file name, cut at every occurrence of "output": the pieces
\* "output" itself and the text between two occurrences
Pieces(name) ==
  IF name = "output_a" THEN <<"output", "_a">>
  ELSE IF name = "output_b" THEN <<"output", "_b">>
  ELSE <<name>>

\* str(path.absolute()): the components of the path, each after a "/"
RECURSIVE PathText(_)
PathText(parts) ==
  IF parts = <<>> THEN <<>>
  ELSE <<"/">> \o Pieces(Head(parts)) \o PathText(Tail(parts))

\* "output" in filename
Contains(text, sep) == \E k \in DOMAIN text : text[k] = sep

\* filename.split(sep): the texts between the occurrences of sep
RECURSIVE split(_, _, _)
split(text, sep, piece) ==
  IF text = <<>> THEN <<piece>>
  ELSE IF Head(text) = sep THEN <<piece>> \o split(Tail(text), sep, <<>>)
  ELSE split(Tail(text), sep, Append(piece, Head(text)))

\* parse_metadata: the index of a file is filename.split("output")[1] if
\* "output" is in the file name, else the file name
StripOutput(parts) ==
  IF Contains(PathText(parts), "output")
  THEN split(PathText(parts), "output", <<>>)[2]
  ELSE PathText(parts)

\* parse_metadata of parse_metadata.py: open, json.loads of the text from
\* the first "{" to the last "}", or parameters[filter] raises
parse_raises(entry, filter) ==
  \/ ~IsFile(entry)
  \/ LET lines == entry[2].text
         start == find(lines, Open)
         end == rfind(lines, Close)
         metadata_text == Slice(lines, start, end + 1)
     IN loads_raises(metadata_text) \/ ~HasKey(loads(metadata_text), filter)

\* parse_metadata: the parameters under the filter key as a one-row frame,
\* indexed by the file name
parse_one(parts, entry, filter) ==
  LET lines == entry[2].text
      start == find(lines, Open)
      end == rfind(lines, Close)
      metadata_text == Slice(lines, start, end + 1)
      parameters == Lookup(loads(metadata_text), filter)
  IN [index |-> StripOutput(parts), items |-> parameters]

\* the keys of the rows in order of first appearance
RECURSIVE ConcatColumns(_, _)
ConcatColumns(rows, acc) ==
  IF rows = <<>> THEN acc
  ELSE LET keys == [k \in DOMAIN Head(rows).items |-> Head(rows).items[k][1]]
           fresh == SelectSeq(keys, LAMBDA key : \A k \in DOMAIN acc : acc[k] # key)
       IN ConcatColumns(Tail(rows), acc \o fresh)

Cell(row, key) ==
  IF \E k \in DOMAIN row.items : row.items[k][1] = key
  THEN row.items[CHOOSE k \in DOMAIN row.items : row.items[k][1] = key][2]
  ELSE NaN

\* pd.concat(dfs): the union of the columns, NaN where a file lacks a key
concat(rows) ==
  LET columns == ConcatColumns(rows, <<>>)
  IN [columns |-> columns,
      rows |-> [r \in DOMAIN rows |->
                  [index |-> rows[r].index,
                   cells |-> [key \in { columns[k] : k \in DOMAIN columns } |->
                                Cell(rows[r], key)]]]]

\* x.nunique(): the number of distinct values of a column, NaN not counted
nunique(table, key) ==
  Cardinality({ table.rows[r].cells[key] : r \in DOMAIN table.rows } \ {NaN})

\* df.drop(columns=dropped)
drop(table, dropped) ==
  [columns |-> SelectSeq(table.columns, LAMBDA key : key \notin dropped),
   rows |-> [r \in DOMAIN table.rows |->
               [index |-> table.rows[r].index,
                cells |-> [key \in DOMAIN table.rows[r].cells \ dropped |->
                             table.rows[r].cells[key]]]]]

\* simplify_metadata: the columns with nunique() == 1 are dropped
simplify_metadata(table) ==
  drop(table, { table.columns[k] : k \in { m \in DOMAIN table.columns :
                                            nunique(table, table.columns[m]) = 1 } })

\* df.to_csv(save_path, index=True): the header and one line per row, an
\* empty field for NaN
to_csv(table) ==
  <<<<"filename">> \o table.columns>> \o
  [r \in DOMAIN table.rows |->
     <<table.rows[r].index>> \o
     [k \in DOMAIN table.columns |->
        IF table.rows[r].cells[table.columns[k]] = NaN THEN ""
        ELSE table.rows[r].cells[table.columns[k]][1]]]

\* the variables parse_metadata.py leaves alone
notParse ==
  <<metadata, translated, argv, args, loaded, N, results_dir, overwrite,
    frame, col, ydata, dist_results, params, df_data, best, hist,
    callVars, scriptVars, forceVars>>

InitParse ==
  /\ prog = "parse_metadata"
  /\ pc = "folder"
  /\ \E dir \in FolderFlags, absdir \in AbsFolderFlags, simple \in BOOLEAN,
        group \in Filters :
       flags = [folder |-> dir, absfolder |-> absdir, filter |-> group,
                filename |-> "metadata", simplify |-> simple]
  /\ \E one \in {Absent} \cup { File(m) : m \in PmFiles \cup PmTexts },
        two \in {Absent} \cup { File(m) : m \in PmFiles },
        three \in {Absent, File(MetaFile(TRUE, TRUE, <<<<"seed", Some("1")>>>>))},
        four \in {Absent, File(MetaFile(TRUE, TRUE, <<<<"seed", Some("2")>>>>))},
        old \in {Absent, File(TextFile(<<<<"filename">>>>))} :
       \* a file of PmTexts, and a filter other than the default, are tried
       \* on a folder of one file
       /\ one \in { File(m) : m \in PmTexts \ PmFiles } \/ flags.filter # "bdm::SimParam" =>
            two = Absent /\ three = Absent /\ four = Absent
       /\ fs = [parts \in {RunOne, RunTwo, NestedOne, NestedTwo, Elsewhere, Notes,
                           SavePath("metadata")} |->
                  IF parts = RunOne THEN one
                  ELSE IF parts = RunTwo THEN two
                  ELSE IF parts = NestedOne THEN three
                  ELSE IF parts = NestedTwo THEN four
                  ELSE IF parts = Elsewhere
                       THEN File(MetaFile(TRUE, TRUE, <<<<"seed", Some("1")>>>>))
                  ELSE IF parts = Notes THEN File(TextFile(<<<<"notes">>>>))
                  ELSE old]
  /\ folder = <<>> /\ files = <<>> /\ df = <<>> /\ printed = <<>>
  /\ metadata = <<>> /\ translated = <<>>
  /\ argv = <<>> /\ args = <<>> /\ loaded = FALSE
  /\ N = 0 /\ results_dir = <<"absent">> /\ overwrite = ""
  /\ frame = <<>> /\ col = 0 /\ ydata = <<>>
  /\ dist_results = <<>> /\ params = <<>> /\ df_data = <<>>
  /\ best = <<>> /\ hist = {}
  /\ CallsIdle /\ ScriptIdle /\ ForcesIdle

ResolveFolderRelative ==
  /\ prog = "parse_metadata" /\ pc = "folder"
  /\ folder' = abspath(join(join(dir_path, PathOf(FALSE, <<"..">>)), flags.folder))
  /\ printed' = Append(printed, <<"Scanning folder: ", folder'>>)
  /\ pc' = "search"
  /\ UNCHANGED <<prog, flags, fs, files, df, notParse>>

\* main: the folder to scan is --absfolder if given, else --folder next to
\* the script's directory
ResolveFolder ==
  /\ prog = "parse_metadata" /\ pc = "folder"
  /\ folder' = IF flags.absfolder # None THEN flags.absfolder[1]
               ELSE abspath(join(join(dir_path, PathOf(FALSE, <<"..">>)), flags.folder))
  /\ printed' = Append(printed, <<"Scanning folder: ", folder'>>)
  /\ pc' = "search"
  /\ UNCHANGED <<prog, flags, fs, files, df, notParse>>

\* main: files = search_metadata(folder), in the order rglob yields them
SearchMetadata ==
  /\ prog = "parse_metadata" /\ pc = "search"
  /\ files' \in Listings(Found(fs, folder))
  /\ printed' = Append(printed, <<"Found files: ", Len(files')>>)
  /\ pc' = "parse"
  /\ UNCHANGED <<prog, flags, fs, folder, df, notParse>>

\* main: df = parse_all_files(files, filter); a file that cannot be parsed
\* raises, and so does pd.concat of no frames
ParseAllFiles ==
  /\ prog = "parse_metadata" /\ pc = "parse"
  /\ IF files = <<>> \/ \E k \in DOMAIN files : parse_raises(fs[files[k]], flags.filter)
     THEN df' = df /\ pc' = "raised"
     ELSE /\ df' = concat([k \in DOMAIN files |->
                             parse_one(files[k], fs[files[k]], flags.filter)])
          /\ pc' = "simplify"
  /\ printed' = Append(printed, "Parsing metadata ..")
  /\ UNCHANGED <<prog, flags, fs, folder, files, notParse>>

\* main: with --simplify, df = simplify_metadata(df)
SimplifyMetadata ==
  /\ prog = "parse_metadata" /\ pc = "simplify"
  /\ IF flags.simplify
     THEN /\ df' = simplify_metadata(df)
          /\ printed' = Append(printed, "Simplifying metadata ..")
     ELSE UNCHANGED <<df, printed>>
  /\ pc' = "save"
  /\ UNCHANGED <<prog, flags, fs, folder, files, notParse>>

\* main: df.to_csv(save_path, index=True)
SaveMetadata ==
  /\ prog = "parse_metadata" /\ pc = "save"
  /\ fs' = [fs EXCEPT ![SavePath(flags.filename)] = File(TextFile(to_csv(df)))]
  /\ printed' = Append(printed, "Saving metadata ..")
  /\ pc' = "done"
  /\ UNCHANGED <<prog, flags, folder, files, df, notParse>>

NextParse ==
  \/ ResolveFolder \/ SearchMetadata \/ ParseAllFiles \/ SimplifyMetadata
  \/ SaveMetadata

SpecParse == InitParse /\ [][NextParse]_vars

----------------------------------------------------------------------------
(* Properties of combine_groups and of combine_data.py *)

CallsRun == prog = "combine_groups"

HasAB == CallsRun /\ pc # "call_ab"

HasAA == CallsRun /\ pc = "done"

HasLeftRight == CallsRun /\ pc \in {"call_aa", "done"}

\* mean * (n1 + n2) = n1 * mean1 + n2 * mean2
IsWeightedMean(g, g1, g2) ==
  /\ IsGroup(g)
  /\ SameValue(Mul(g.mean, PyNum(g1.n + g2.n)),
               Add(Mul(PyNum(g1.n), g1.mean), Mul(PyNum(g2.n), g2.mean)))

\* C1 as stated: whenever n1 + n2 >= 1, combine_groups returns a group whose
\* mean is the count-weighted average of the two means.
C1_WeightedMeanFromOne ==
  HasAB /\ a.n + b.n >= 1 => IsWeightedMean(ab, a, b)

\* C1 amended: whenever n1 + n2 >= 2, combine_groups returns a group whose
\* mean is the count-weighted average of the two means.
C1_WeightedMean ==
  /\ HasAB /\ a.n + b.n >= 2 => IsWeightedMean(ab, a, b)
  /\ HasLeftRight /\ b.n + c.n >= 2 => IsWeightedMean(bc, b, c)

C1_Witness ==
  /\ HasAB /\ a.n + b.n >= 2 /\ a.n # b.n /\ b.n > 0
  /\ ~SameValue(a.mean, b.mean)
  /\ IsGroup(ab) /\ ~ab.mean.np

\* (n1+n2-1)*std^2 = (n1-1)*std1^2 + (n2-1)*std2^2 + n1*n2*(mean1-mean2)^2/(n1+n2)
IsPooledVariance(g, g1, g2) ==
  SameValue(Mul(PyNum(g1.n + g2.n - 1), SqOfRoot(g.std)),
            Add(Add(Mul(PyNum(g1.n - 1), SqOfRoot(g1.std)),
                    Mul(PyNum(g2.n - 1), SqOfRoot(g2.std))),
                Div(Mul(PyNum(g1.n * g2.n), Pow2(Sub(g1.mean, g2.mean))),
                    PyNum(g1.n + g2.n))))

\* C2: when a and b hold count, mean and sample standard deviation of the
\* samples sA and sB, combine_groups(a, b) holds count, mean and sample
\* standard deviation of the concatenation of sA and sB, and the pooled
\* variance equation holds.
C2_PooledSampleStatistics ==
  HasAB /\ sA # <<>> =>
    /\ IsGroup(ab)
    /\ ab.n = Len(sA \o sB)
    /\ SameValue(ab.mean, SampleMean(sA \o sB))
    /\ SameValue(ab.std, Sqrt(SampleVar(sA \o sB)))
    /\ IsFinite(ab.std)
    /\ IsPooledVariance(ab, a, b)

C2_Witness ==
  /\ HasAB /\ Len(sA) >= 2 /\ Len(sB) >= 1 /\ Len(sA) # Len(sB)
  /\ ~SameValue(a.mean, b.mean)
  /\ a.std.num > 0
  /\ IsGroup(ab) /\ ab.std.den > 1

\* C3: the combined group has the summed count, and every row the script
\* collects has n = 42.
C3_SummedCount ==
  /\ HasAB /\ IsGroup(ab) => ab.n = a.n + b.n
  /\ HasLeftRight /\ IsGroup(left) => left.n = a.n + b.n + c.n
  /\ HasLeftRight /\ IsGroup(right) => right.n = a.n + b.n + c.n
  /\ HasAA /\ IsGroup(aa) => aa.n = a.n + a.n
  /\ prog = "combine_data" =>
       \A k \in 1..Len(new_data) : new_data[k].n = 42

C3_Witness ==
  /\ prog = "combine_data" /\ pc = "done"
  /\ Len(new_data) >= 2
  /\ new_data[2].n = 42

\* the six groups of a row combined from right to left
FoldRowRight(row) ==
  combine_groups(RowGroup(row, 1),
    combine_groups(RowGroup(row, 2),
      combine_groups(RowGroup(row, 3),
        combine_groups(RowGroup(row, 4),
          combine_groups(RowGroup(row, 5), RowGroup(row, 6))))))

SameGroup(g, h) ==
  /\ IsGroup(g) /\ IsGroup(h)
  /\ g.n = h.n
  /\ SameValue(g.mean, h.mean)
  /\ SameValue(g.std, h.std)
  /\ IsFinite(g.mean) /\ IsFinite(g.std)

\* C4: for groups with counts >= 1 the two groupings of three groups give
\* the same count, mean and variance, and the row result of the script is
\* the one the opposite grouping of the six groups gives.
C4_Associative ==
  /\ HasLeftRight /\ a.n >= 1 /\ b.n >= 1 /\ c.n >= 1 => SameGroup(left, right)
  /\ prog = "combine_data" =>
       \A k \in 1..Len(new_data) :
          LET g == FoldRowRight(data[k])
          IN /\ new_data[k].n = g.n
             /\ SameValue(new_data[k].mean_1, g.mean)
             /\ SameValue(new_data[k].std_1, g.std)

C4_Witness ==
  /\ HasLeftRight
  /\ a.n = 1 /\ b.n = 2 /\ c.n = 1
  /\ ~SameValue(a.mean, b.mean) /\ ~SameValue(b.mean, c.mean)
  /\ b.std.num > 0
  /\ SameGroup(left, right)

\* C5: combine_groups(g, g) has the mean of g, and for n >= 2
\* std_new^2 = 2*(n-1)*s^2/(2n-1), so 0 <= std_new <= s and std_new = 0
\* exactly when s = 0.
C5_IdenticalGroups ==
  HasAA /\ a.n >= 1 =>
    /\ IsGroup(aa)
    /\ SameValue(aa.mean, a.mean)
    /\ a.n >= 2 =>
         /\ SameValue(Mul(PyNum(2 * a.n - 1), SqOfRoot(aa.std)),
                      Mul(PyNum(2 * (a.n - 1)), SqOfRoot(a.std)))
         /\ ~Less(aa.std, PyNum(0))
         /\ ~Less(a.std, aa.std)
         /\ IsFinite(aa.std)
         /\ (aa.std.num = 0) <=> (a.std.num = 0)

C5_Witness ==
  /\ HasAA /\ a.n >= 2 /\ a.std.num > 0 /\ a.mean.num > 0
  /\ IsGroup(aa) /\ Less(aa.std, a.std)

\* C6: for n >= 1, combine_groups(g, g) is not g: its count is 2n, not n.
C6_NotIdempotent ==
  HasAA /\ a.n >= 1 =>
    /\ IsGroup(aa)
    /\ aa.n = 2 * a.n
    /\ aa.n # a.n
    /\ aa # a

C6_Witness ==
  /\ HasAA /\ a.n >= 1 /\ a.std.num = 0
  /\ IsGroup(aa)
  /\ SameValue(aa.mean, a.mean) /\ SameValue(aa.std, a.std)
  /\ aa # a

----------------------------------------------------------------------------
(* Properties of fit-rat-vessels.py *)

Returned == prog = "fit-rat-vessels" /\ pc = "plot"

\* C7: the returned triple (name, p, params) has the largest p-value of all
\* candidates, p is the p-value computed for name, and params are the
\* parameters fitted for name and passed to its Kolmogorov-Smirnov test.
C7_BestTriple ==
  Returned =>
    /\ \A j \in 1..Len(df_data) : df_data[j].p <= best[2]
    /\ \E k \in 1..Len(dist_names) :
         /\ dist_names[k] = best[1]
         /\ df_data[k].dist = best[1]
         /\ df_data[k].p = best[2]
         /\ df_data[k].params = best[3]

C7_Witness ==
  /\ Returned
  /\ best[1] = dist_names[2]
  /\ df_data[1].p < best[2] /\ df_data[3].p < best[2]
  /\ df_data[1].params # best[3] /\ df_data[3].params # best[3]

\* C8: among the candidates that share the largest p-value the one that
\* comes first in dist_names is returned.
C8_FirstMaximum ==
  Returned =>
    \A j, k \in 1..Len(dist_names) :
      dist_names[k] = best[1] /\ df_data[j].p = best[2] => k <= j

C8_Witness ==
  /\ Returned
  /\ best[1] = dist_names[2]
  /\ df_data[1].p < df_data[2].p
  /\ df_data[3].p = df_data[2].p

\* C9: every sample handed to get_best_distribution holds one value per
\* measured vessel, each read from the file or derived from values read
\* from it, and no generated or missing value.
C9_EmpiricalSample ==
  prog = "fit-rat-vessels" /\ pc \in {"fit", "plot", "raised"} =>
    /\ Len(ydata) = Len(df)
    /\ \A k \in 1..Len(ydata) : ydata[k].src = "file"

----------------------------------------------------------------------------
(* Properties of translate_metadata.py *)

InputMissing ==
  prog = "translate_metadata" /\ ~IsFile(fs[flags.inputfile])

\* C10: while the input file does not exist, the only step main takes prints
\* the message and returns: the metadata stays unparsed and no file is
\* created, truncated or modified.
C10_MissingInputReturns ==
  [][InputMissing =>
       /\ pc' = "done"
       /\ printed' = Append(printed, NotFoundMessage(flags.inputfile))
       /\ metadata' = <<"unparsed">>
       /\ translated' = <<>>
       /\ fs' = fs]_vars

C10_Witness ==
  /\ InputMissing /\ pc = "done"
  /\ fs[flags.inputfile] = Absent
  /\ flags.outputfile = OutputPath
  /\ fs[flags.outputfile] = File(StaleText)
  /\ printed = <<NotFoundMessage(InputPath)>>
  /\ metadata = <<"unparsed">>

----------------------------------------------------------------------------
(* Properties of the ParaView scripts *)

WrongArgc == Len(argv) # Argc(prog)

StateFileMissing == ~IsFile(fs[Path(StateFile)])

BadInvocation == prog \in ParaViewScripts /\ (WrongArgc \/ StateFileMissing)

AllIntLiterals == \A k \in 2..(Argc(prog) - 1) : IsIntLiteral(Arg(k))

\* C11 as stated: when argc is wrong or the state file does not exist, every
\* step of main leads to its return with one message printed: visualize is
\* not entered, no state is loaded and no folder or frame is touched.
C11_PrintsAndReturns ==
  [][BadInvocation =>
       /\ loaded' = FALSE /\ fs' = fs
       /\ \/ pc' \in {"convert", "isfile"} /\ printed' = <<>>
          \/ /\ pc' = "done"
             /\ printed' \in {<<Usage(prog)>>, <<DoesNotExist(StateFile)>>}]_vars

\* C11 amended: when argc is wrong, main prints the usage and returns; when
\* argc is right and the state file does not exist, main prints that the file
\* does not exist and returns if the words after the file name are integer
\* literals, and otherwise int raises ValueError before the file is looked up
\* and nothing is printed.  In each of these cases visualize is not entered:
\* no state is loaded and no folder or frame is touched.
C11_NoVisualize ==
  [][BadInvocation =>
       /\ loaded' = FALSE /\ fs' = fs
       /\ IF WrongArgc
          THEN pc' = "done" /\ printed' = <<Usage(prog)>>
          ELSE IF AllIntLiterals
          THEN \/ pc' \in {"convert", "isfile"} /\ printed' = <<>>
               \/ pc' = "done" /\ printed' = <<DoesNotExist(StateFile)>>
          ELSE pc' \in {"convert", "raised"} /\ printed' = <<>>]_vars

C11_Witness ==
  /\ BadInvocation /\ ~WrongArgc /\ pc = "done"
  /\ printed = <<DoesNotExist(StateFile)>>
  /\ \E path \in DOMAIN fs : fs[path] = Folder({0})

----------------------------------------------------------------------------
(* Properties of fit-rat-vessels.py: exceptions *)

FitRaised == prog = "fit-rat-vessels" /\ pc = "raised"

\* C12: when getattr, fit or kstest raises for a candidate, the exception
\* leaves get_best_distribution and main: no triple is returned, the other
\* candidates are not processed, nothing runs afterwards (no retry), and no
\* histogram is written for the column being fitted or a later one.
C12_ExceptionPropagates ==
  [][/\ FitRaised' =>
          /\ best' = <<>>
          /\ df_data' = df_data /\ dist_results' = dist_results
          /\ Len(df_data') < Len(dist_names)
          /\ hist' = hist
          /\ \A k \in col'..Len(Columns) : HistFile(Columns[k]) \notin hist'
     /\ FitRaised => UNCHANGED vars]_vars

C12_Witness ==
  /\ FitRaised /\ col = 2 /\ Len(df_data) = 1
  /\ hist = {HistFile(Columns[1])}

----------------------------------------------------------------------------
(* Properties of combine_data.py: the rows written *)

ScriptDone == prog = "combine_data" /\ pc = "done"

\* the file written for the input rows kept: index days, columns mean_1, std_1
CombinedCsv(kept) ==
  <<"file", [k \in 1..Len(kept) |->
               [days |-> kept[k].days,
                mean_1 |-> FoldRow(kept[k]).mean,
                std_1 |-> FoldRow(kept[k]).std]]>>

IsBeforeTreatment(row) == row.days <= TreatmentDay

\* the rows in front of the first row of a day after TreatmentDay
RECURSIVE BeforeFirstTreatment(_)
BeforeFirstTreatment(rows) ==
  IF rows = <<>> \/ ~IsBeforeTreatment(Head(rows)) THEN <<>>
  ELSE <<Head(rows)>> \o BeforeFirstTreatment(Tail(rows))

\* C14 as stated: growth_data_combined.csv holds one combined row (days,
\* mean_1, std_1) for every input row with day <= 34, in input order, and no
\* row for a day > 34, whatever the order of the input rows.
C14_AllRowsUpToTreatment ==
  ScriptDone => csv = CombinedCsv(SelectSeq(data, IsBeforeTreatment))

\* C14 amended: growth_data_combined.csv holds one combined row (days,
\* mean_1, std_1) for every input row in front of the first row with
\* day > 34, in input order, and no other row.
C14_RowsBeforeFirstTreatment ==
  ScriptDone => csv = CombinedCsv(BeforeFirstTreatment(data))

C14_Witness ==
  /\ ScriptDone /\ Len(data) = 2
  /\ data[1].days <= TreatmentDay /\ data[2].days > TreatmentDay
  /\ Len(csv[2]) = 1

----------------------------------------------------------------------------
(* Properties of plot-data.py *)

PlotRun == prog = "plot-data"

PlotEnded == pc \in {"done", "exited", "raised"}

MergedRun == PlotRun /\ csv[1] = "file"

\* the data of the merged file are transformed: N = 1 and lower_1, upper_1
\* hold a number in every row of the combined file
MergedTransformed ==
  /\ N = 1
  /\ HasColumn(data, ColumnName("lower", 1))
  /\ HasColumn(data, ColumnName("upper", 1))
  /\ Len(data.index) = Len(csv[2])
  /\ \A r \in DOMAIN data.index :
       /\ ~IsNaN(data.values[ColumnName("lower", 1)][r])
       /\ ~IsNaN(data.values[ColumnName("upper", 1)][r])

\* results_dir holds the figure of group 1 and otherwise what it held before
OneFigureWritten ==
  /\ results_dir[1] = "dir"
  /\ FigureName(1) \in DOMAIN results_dir[2]
  /\ results_dir[2][FigureName(1)] = Figure(data, 1)
  /\ \A name \in DOMAIN results_dir[2] \ {FigureName(1)} :
       results_dir[2][name] = OldFigure

\* C15 as stated: on growth_data_combined.csv trasform_data yields N = 1
\* with lower_1 and upper_1 defined in every row, and plot_data completes
\* and writes exactly the figure growth_group_1.png.
C15_PlotsMergedData ==
  MergedRun =>
    /\ pc # "transform" => MergedTransformed
    /\ pc \notin {"raised", "exited"}
    /\ pc = "done" => OneFigureWritten

\* C15 amended: on growth_data_combined.csv trasform_data yields N = 1 with
\* lower_1 and upper_1 defined in every row, and plot_data completes and
\* writes exactly the figure growth_group_1.png, unless results_dir exists
\* and the answer to the prompt of create_folder is not "y": then the process
\* exits with no figure written.
C15_PlotsMergedDataUnlessDeclined ==
  MergedRun =>
    /\ pc # "transform" => MergedTransformed
    /\ pc # "raised"
    /\ pc = "exited" => overwrite # "y" /\ results_dir \in ResultsDirs \ {Absent}
    /\ pc = "done" => OneFigureWritten

C15_Witness ==
  /\ MergedRun /\ pc = "done" /\ Len(data.index) = 2
  /\ FigureName(2) \in DOMAIN results_dir[2]
  /\ ~SameValue(data.values[ColumnName("lower", 1)][1],
                data.values[ColumnName("upper", 1)][1])

\* C17 as stated: for every N >= 1 and every data frame with the columns
\* mean_i, std_i, lower_i, upper_i for i in 1..N, plot_data plots every group
\* and returns with growth_group_i.png saved for every i in 1..N.
C17_EveryGroupPlotted ==
  PlotRun /\ N >= 1 =>
    /\ pc # "raised"
    /\ pc = "done" =>
         \A k \in 1..N :
           /\ FigureName(k) \in DOMAIN results_dir[2]
           /\ results_dir[2][FigureName(k)] = Figure(data, k)

\* C18: trasform_data returns N with 2N the number of data columns and adds,
\* for every i in 1..N, lower_i = mean_i - std_i and upper_i = mean_i + std_i,
\* so that lower_i <= mean_i <= upper_i in every row with std_i >= 0; the
\* columns mean_i and std_i and the index are left as they were.
C18_Bands ==
  [][PlotRun /\ pc = "transform" =>
       /\ pc' = "create_folder"
       /\ 2 * N' = Len(data.columns)
       /\ data'.index = data.index
       /\ data'.columns =
            data.columns \o
            [k \in 1..(2 * N') |->
               IF k % 2 = 1 THEN ColumnName("lower", (k + 1) \div 2)
               ELSE ColumnName("upper", k \div 2)]
       /\ \A k \in 1..N' :
            LET mean_k == data'.values[ColumnName("mean", k)]
                std_k == data'.values[ColumnName("std", k)]
                lower_k == data'.values[ColumnName("lower", k)]
                upper_k == data'.values[ColumnName("upper", k)]
            IN /\ mean_k = data.values[ColumnName("mean", k)]
               /\ std_k = data.values[ColumnName("std", k)]
               /\ \A r \in DOMAIN data.index :
                    /\ SameValue(Add(lower_k[r], std_k[r]), mean_k[r])
                    /\ SameValue(Sub(upper_k[r], std_k[r]), mean_k[r])
                    /\ ~Less(std_k[r], NpNum(0)) =>
                         ~Less(mean_k[r], lower_k[r]) /\ ~Less(upper_k[r], mean_k[r])]_vars

C18_Witness ==
  /\ PlotRun /\ pc = "create_folder" /\ N = 3 /\ Len(data.index) = 2
  /\ Less(data.values[ColumnName("lower", 2)][1], data.values[ColumnName("mean", 2)][1])
  /\ Less(data.values[ColumnName("mean", 3)][2], data.values[ColumnName("lower", 3)][2])

\* C19: create_folder creates results_dir when it does not exist; when it
\* exists the user is asked, plotting goes on only for the answer "y", and
\* for any other answer the process exits with results_dir as it was: no
\* figure is created and no file is changed, then or afterwards.
C19_OverwriteOnlyOnYes ==
  [][PlotRun =>
       /\ pc = "create_folder" /\ ~exists(results_dir) =>
            results_dir' = Folder(<<>>) /\ pc' = "plot"
       /\ pc = "create_folder" /\ exists(results_dir) =>
            results_dir' = results_dir /\ pc' = "input"
       /\ pc = "input" =>
            /\ results_dir' = results_dir
            /\ IF overwrite' = "y" THEN pc' = "plot" ELSE pc' = "exited"
       /\ pc = "exited" => UNCHANGED vars]_vars

C19_Witness ==
  /\ PlotRun /\ pc = "exited" /\ overwrite = "Y"
  /\ FigureName(1) \in DOMAIN results_dir[2]
  /\ results_dir[2][FigureName(1)] = OldFigure

----------------------------------------------------------------------------
(* Properties of parse_metadata.py *)

ParseRun == prog = "parse_metadata"

\* the columns in which every row holds the same entry, a missing one included
IdenticalColumns(table) ==
  { key \in { table.columns[k] : k \in DOMAIN table.columns } :
      \A r, q \in DOMAIN table.rows :
        table.rows[r].cells[key] = table.rows[q].cells[key] }

\* C16 as stated: simplify_metadata removes a column iff every row holds the
\* same entry in it (missing entries included) and keeps every other column
\* and all rows unchanged.
C16_DropsIdenticalColumns ==
  [][ParseRun /\ pc = "simplify" /\ flags.simplify =>
       df' = drop(df, IdenticalColumns(df))]_vars

\* the folder the flags name: --absfolder as given, else --folder below the
\* parent of the script's directory
NamedFolder ==
  IF flags.absfolder # None THEN flags.absfolder[1]
  ELSE PathOf(TRUE, SubSeq(dir_path.parts, 1, Len(dir_path.parts) - 1)
                      \o flags.folder.parts)

\* C20: the scanned folder is --absfolder whenever that flag is given,
\* whatever --folder is; only without it the folder is
\* <script dir>/../<--folder>.
C20_AbsFolderOverrides ==
  [][ParseRun =>
       /\ pc = "folder" => folder' = NamedFolder /\ pc' = "search"
       /\ pc = "search" =>
            /\ folder = NamedFolder
            /\ { files'[k] : k \in DOMAIN files' } = Found(fs, NamedFolder)]_vars

C20_Witness ==
  /\ ParseRun /\ pc = "parse"
  /\ flags.absfolder = Some(PathOf(TRUE, <<"data", "runs">>))
  /\ flags.folder = PathOf(FALSE, <<"output">>)
  /\ exists(fs[RunOne])
  /\ files = <<Elsewhere>>

\* the text after the first occurrence of sep in a text that contains it
RECURSIVE AfterFirst(_, _)
AfterFirst(text, sep) ==
  IF Head(text) = sep THEN Tail(text) ELSE AfterFirst(Tail(text), sep)

\* parse_all_files has returned the frame of the files found
Parsed == ParseRun /\ pc = "simplify"

\* C21 as stated: the index of a file whose path contains "output" is the
\* whole remainder of the path after the first occurrence of "output", so
\* distinct files get distinct index values; the index of a file whose path
\* does not contain "output" is the unchanged path.
C21_IndexIsRemainder ==
  Parsed =>
    /\ \A k \in DOMAIN files :
         df.rows[k].index =
           IF Contains(PathText(files[k]), "output")
           THEN AfterFirst(PathText(files[k]), "output")
           ELSE PathText(files[k])
    /\ \A k, m \in DOMAIN files :
         files[k] # files[m] => df.rows[k].index # df.rows[m].index

----------------------------------------------------------------------------
(* Properties of the two parse_metadata functions *)

\* translate_metadata.py or parse_metadata.py, started on its files
SpecMetadata == (InitTranslate \/ InitParse) /\ [][NextTranslate \/ NextParse]_vars

TranslateRun == prog = "translate_metadata"

\* the text that spans from the first "{" to the last "}" of a file
\* inclusive, empty without such a span
Span(lines) ==
  LET opens == { k \in DOMAIN lines : lines[k] = Open }
      closes == { k \in DOMAIN lines : lines[k] = Close }
  IN IF opens = {} \/ closes = {} THEN <<>>
     ELSE LET first == CHOOSE k \in opens : \A m \in opens : k <= m
              last == CHOOSE k \in closes : \A m \in closes : m <= k
          IN IF first <= last THEN SubSeq(lines, first, last) ELSE <<>>

\* that text is valid JSON and has the filter key
Selects(lines, filter) ==
  ~loads_raises(Span(lines)) /\ HasKey(loads(Span(lines)), filter)

\* the JSON object stored under the filter key
Selected(lines, filter) == Lookup(loads(Span(lines)), filter)

\* the row of a frame holds the items of a dictionary and nothing else
RowHolds(row, d) ==
  \A key \in DOMAIN row.cells :
    row.cells[key] = IF HasKey(d, key) THEN Lookup(d, key) ELSE NaN

\* C22: both parse_metadata functions select, for every file content and
\* filter, the JSON object stored under the filter key in the text from the
\* first "{" to the last "}"; if that text is not valid JSON or lacks the
\* filter key the exception ends the script, which writes no file then or
\* later.
C22_SameSelection ==
  [][/\ TranslateRun /\ pc = "parse" /\ IsFile(fs[flags.inputfile]) =>
         LET lines == fs[flags.inputfile][2].text
         IN /\ parse_raises(fs[flags.inputfile], flags.filter) = ~Selects(lines, flags.filter)
            /\ IF Selects(lines, flags.filter)
               THEN /\ pc' = "translate"
                    /\ metadata' = <<"parsed", Selected(lines, flags.filter)>>
                    /\ parse_one(<<flags.inputfile>>, fs[flags.inputfile], flags.filter).items
                         = metadata'[2]
               ELSE pc' = "raised" /\ fs' = fs
     /\ ParseRun /\ pc = "parse" /\ files # <<>> =>
         /\ \A k \in DOMAIN files :
              parse_metadata_raises(fs[files[k]][2].text, flags.filter)
                = ~Selects(fs[files[k]][2].text, flags.filter)
         /\ IF \A k \in DOMAIN files : Selects(fs[files[k]][2].text, flags.filter)
            THEN /\ pc' = "simplify"
                 /\ \A k \in DOMAIN files :
                      /\ RowHolds(df'.rows[k], Selected(fs[files[k]][2].text, flags.filter))
                      /\ RowHolds(df'.rows[k],
                                  parse_metadata(fs[files[k]][2].text, flags.filter))
            ELSE pc' = "raised" /\ fs' = fs
     /\ pc = "raised" => pc' = "raised" /\ fs' = fs]_vars

\* a file with text before and after the JSON object has been parsed by
\* translate_metadata.py
C22_Witness ==
  /\ TranslateRun /\ pc = "translate"
  /\ fs[flags.inputfile][2].text[1] = Junk
  /\ fs[flags.inputfile][2].text[Len(fs[flags.inputfile][2].text)] = Junk
  /\ metadata = <<"parsed", <<<<"action_radius_factor", 1>>>>>>

----------------------------------------------------------------------------
(* Properties of write_dictionary_to_file *)

\* write_dictionary_to_file has been called
Writing == TranslateRun /\ metadata[1] = "parsed" /\ pc \in {"replace", "done", "raised"}

Written == Writing /\ pc = "done"

\* the entry "$key = value$" of an item
Entry(item) == <<"$=$", item[1], item[2]>>

\* one entry per item in order, "," and a line end after every entry but the
\* last, "." after the last
RECURSIVE Listing(_)
Listing(d) ==
  IF d = <<>> THEN <<>>
  ELSE IF Len(d) = 1 THEN <<Entry(d[1]), <<".">>>>
  ELSE <<Entry(d[1]), <<",">>, <<"\n">>>> \o Listing(Tail(d))

\* C23: the file write_dictionary_to_file leaves holds one entry
\* "$key = value$" per item, one per line in dictionary order, each but the
\* last followed by "," and the last by "." with nothing after it.
C23_EntriesThenPeriod ==
  Written => fs[flags.outputfile] = File(TextFile(Listing(translated)))

C23_Witness ==
  /\ Written
  /\ Len(translated) = 2
  /\ fs[flags.outputfile][2].text =
       <<Entry(translated[1]), <<",">>, <<"\n">>, Entry(translated[2]), <<".">>>>

\* translate_dictionary has returned no entry
NothingToWrite == TranslateRun /\ metadata[1] = "parsed" /\ translated = <<>>

EmptyFile == File(TextFile(<<>>))

\* C25: with no entry to write, write_dictionary_to_file first creates or
\* truncates the output file and then raises: the run ends in the exception
\* with an empty output file in place of what was there.
C25_RaisesAfterTruncation ==
  [][NothingToWrite =>
       /\ pc = "write" =>
            /\ pc' = "replace"
            /\ fs'[flags.outputfile] = EmptyFile
            /\ fs'[flags.outputfile] # fs[flags.outputfile]
       /\ pc = "replace" => pc' = "raised" /\ fs' = fs
       /\ pc = "raised" => fs[flags.outputfile] = EmptyFile /\ fs' = fs]_vars

C25_Witness ==
  /\ NothingToWrite /\ pc = "raised"
  /\ metadata[2] = <<<<"my_parameter", 1>>, <<"alpha_H_D_DOX", 2>>>>
  /\ flags.outputfile = OutputPath
  /\ fs[OutputPath] = EmptyFile

----------------------------------------------------------------------------
(* helper_functions_plot.py *)

\* os.path.abspath(os.path.join(dir, "..", "results/helper_functions"))
outdir ==
  abspath(join(join(dir_path, PathOf(FALSE, <<"..">>)),
               PathOf(FALSE, <<"results", "helper_functions">>))).parts

\* another folder of results
OtherResults == <<"angiogenesis", "results", "growth">>

\* the calls of plot in main: the file name and the function name
PlotCalls ==
  <<[fn |-> "h_a", func_name |-> "h"],
    [fn |-> "h_b", func_name |-> "h"],
    [fn |-> "h_xbar", func_name |-> "h"],
    [fn |-> "l_xbar", func_name |-> "l"],
    [fn |-> "l_a", func_name |-> "l"]>>

\* "{}.pdf".format(fn), "{}.png".format(fn)
PdfName(fn) ==
  CASE fn = "h_a" -> "h_a.pdf" [] fn = "h_b" -> "h_b.pdf"
    [] fn = "h_xbar" -> "h_xbar.pdf" [] fn = "l_xbar" -> "l_xbar.pdf"
    [] fn = "l_a" -> "l_a.pdf"

PngName(fn) ==
  CASE fn = "h_a" -> "h_a.png" [] fn = "h_b" -> "h_b.png"
    [] fn = "h_xbar" -> "h_xbar.png" [] fn = "l_xbar" -> "l_xbar.png"
    [] fn = "l_a" -> "l_a.png"

\* the figure of a call of plot
Curves(call) == <<"figure", call.func_name, call.fn>>

\* what a folder may hold before the run: files of an earlier run and others
OldNames == {"h_a.pdf", "l_a.png", "notes.txt"}

OldFolders ==
  { Folder([name \in names |-> <<"old">>]) : names \in SUBSET OldNames }

IsDir(entry) == entry[1] = "dir"

\* savefig(name) in a folder: the file is written, an existing one replaced
savefig(entry, name, figure) ==
  Folder([n \in DOMAIN entry[2] \cup {name} |->
            IF n = name THEN figure ELSE entry[2][n]])

\* the variables helper_functions_plot.py leaves alone
notHelper ==
  <<data, new_data, csv, flags, metadata, translated, printed,
    callVars, fitVars, moreVars>>

InitHelper ==
  /\ prog = "helper_functions_plot"
  /\ pc = "exists"
  /\ i = 1
  /\ \E old \in {Absent, File(TextFile(<<>>))} \cup OldFolders,
        other \in {Absent} \cup OldFolders :
       fs = [path \in {outdir, OtherResults} |-> IF path = outdir THEN old ELSE other]
  /\ data = <<>> /\ new_data = <<>> /\ csv = <<"absent">>
  /\ flags = <<>> /\ metadata = <<>> /\ translated = <<>> /\ printed = <<>>
  /\ CallsIdle /\ FitIdle /\ MoreIdle

KeepTree ==
  /\ prog = "helper_functions_plot" /\ pc = "exists"
  /\ pc' = "makedirs"
  /\ UNCHANGED <<prog, i, fs, notHelper>>

\* main: if os.path.exists(outdir): shutil.rmtree(outdir), which raises on a
\* path that is no folder
RemoveTree ==
  /\ prog = "helper_functions_plot" /\ pc = "exists"
  /\ IF ~exists(fs[outdir]) THEN fs' = fs /\ pc' = "makedirs"
     ELSE IF IsDir(fs[outdir])
          THEN fs' = [fs EXCEPT ![outdir] = Absent] /\ pc' = "makedirs"
     ELSE fs' = fs /\ pc' = "raised"
  /\ UNCHANGED <<prog, i, notHelper>>

\* main: if not os.path.exists(outdir): os.makedirs(outdir)
MakeDirs ==
  /\ prog = "helper_functions_plot" /\ pc = "makedirs"
  /\ fs' = IF ~exists(fs[outdir]) THEN [fs EXCEPT ![outdir] = Folder(<<>>)] ELSE fs
  /\ pc' = "plot"
  /\ UNCHANGED <<prog, i, notHelper>>

\* plot: the curves of the function are drawn; an unknown function name
\* raises ValueError
DrawCurves ==
  /\ prog = "helper_functions_plot" /\ pc = "plot"
  /\ pc' = IF PlotCalls[i].func_name \in {"h", "l"} THEN "savefig_pdf" ELSE "raised"
  /\ UNCHANGED <<prog, i, fs, notHelper>>

\* plot: plt.savefig("{}.pdf".format(fn))
SavePdf ==
  /\ prog = "helper_functions_plot" /\ pc = "savefig_pdf"
  /\ fs' = [fs EXCEPT ![outdir] = savefig(@, PdfName(PlotCalls[i].fn), Curves(PlotCalls[i]))]
  /\ pc' = "savefig_png"
  /\ UNCHANGED <<prog, i, notHelper>>

\* plot: plt.savefig("{}.png".format(fn)); main goes on to its next call
SavePng ==
  /\ prog = "helper_functions_plot" /\ pc = "savefig_png"
  /\ fs' = [fs EXCEPT ![outdir] = savefig(@, PngName(PlotCalls[i].fn), Curves(PlotCalls[i]))]
  /\ IF i < Len(PlotCalls) THEN i' = i + 1 /\ pc' = "plot"
     ELSE i' = i /\ pc' = "done"
  /\ UNCHANGED <<prog, notHelper>>

NextHelper == RemoveTree \/ MakeDirs \/ DrawCurves \/ SavePdf \/ SavePng

SpecHelper == InitHelper /\ [][NextHelper]_vars

(* Properties of helper_functions_plot.py *)

HelperRun == prog = "helper_functions_plot"

\* the files the first k calls of plot have written
FilesOfCalls(k) ==
  { PdfName(PlotCalls[m].fn) : m \in 1..k } \cup { PngName(PlotCalls[m].fn) : m \in 1..k }

TenFiles ==
  {"h_a.pdf", "h_a.png", "h_b.pdf", "h_b.png", "h_xbar.pdf", "h_xbar.png",
   "l_xbar.pdf", "l_xbar.png", "l_a.pdf", "l_a.png"}

\* C24: the output folder is empty before the first plot, whatever folder was
\* there before the run, holds nothing but the files plotted so far while
\* main runs, and holds exactly the ten files h_a, h_b, h_xbar, l_xbar and
\* l_a as .pdf and .png after main completes.
C24_EmptyThenTenFiles ==
  HelperRun /\ pc \in {"plot", "savefig_pdf", "savefig_png", "done"} =>
    /\ IsDir(fs[outdir])
    /\ pc = "plot" => DOMAIN fs[outdir][2] = FilesOfCalls(i - 1)
    /\ pc = "savefig_pdf" => DOMAIN fs[outdir][2] = FilesOfCalls(i - 1)
    /\ pc = "savefig_png" =>
         DOMAIN fs[outdir][2] = FilesOfCalls(i - 1) \cup {PdfName(PlotCalls[i].fn)}
    /\ pc = "done" =>
         /\ DOMAIN fs[outdir][2] = TenFiles
         /\ \A name \in TenFiles : fs[outdir][2][name] # <<"old">>

C24_Witness ==
  /\ HelperRun /\ pc = "done"
  /\ DOMAIN fs[outdir][2] = TenFiles
  /\ fs[outdir][2]["h_a.pdf"] = Curves(PlotCalls[1])
  /\ fs[outdir][2]["l_a.png"] = Curves(PlotCalls[5])
  /\ exists(fs[OtherResults])

----------------------------------------------------------------------------
(* forces.py *)

\* A floating-point number is s * m * 2^e with the sign s and a mantissa m of
\* Precision bits, 2^(Precision - 1) <= m < 2^Precision, or zero. Every
\* operation returns the number nearest to its exact result, a tie going to
\* the even mantissa. Exponents are not limited.
RECURSIVE TwoTo(_)
TwoTo(k) == IF k = 0 THEN 1 ELSE 2 * TwoTo(k - 1)

FZero == [s |-> 0, m |-> 0, e |-> 0]

\* the number of bits by which n > 0 exceeds Precision bits
RECURSIVE ExtraBits(_)
ExtraBits(n) == IF n < TwoTo(Precision) THEN 0 ELSE 1 + ExtraBits(n \div 2)

\* s * n * 2^e for 0 < n < 2^Precision, with the mantissa scaled up
RECURSIVE Normalized(_, _, _)
Normalized(s, n, e) ==
  IF n < TwoTo(Precision - 1) THEN Normalized(s, 2 * n, e - 1)
  ELSE [s |-> s, m |-> n, e |-> e]

\* the nearest number to s * n * 2^e, or to a value between s * n * 2^e and
\* s * (n + 1) * 2^e if inexact (then n has more than Precision bits)
FRound(s, n, e, inexact) ==
  LET k == ExtraBits(n)
      q == n \div TwoTo(k)
      rest == n % TwoTo(k)
      half == TwoTo(k - 1)
  IN IF k = 0 THEN Normalized(s, n, e)
     ELSE IF rest > half \/ (rest = half /\ (inexact \/ q % 2 = 1))
          THEN IF q + 1 = TwoTo(Precision)
               THEN [s |-> s, m |-> TwoTo(Precision - 1), e |-> e + k + 1]
               ELSE [s |-> s, m |-> q + 1, e |-> e + k]
     ELSE [s |-> s, m |-> q, e |-> e + k]

\* a float literal or flag value n / 2^k
FromInt(n) == IF n = 0 THEN FZero ELSE FRound(Sign(n), Abs(n), 0, FALSE)

FNeg(x) == [x EXCEPT !.s = 0 - x.s]

\* x * y
FMul(x, y) ==
  IF x.s = 0 \/ y.s = 0 THEN FZero
  ELSE FRound(x.s * y.s, x.m * y.m, x.e + y.e, FALSE)

\* x / y for y # 0: the quotient of the mantissas is taken to Precision + 2
\* bits behind the point
FDiv(x, y) ==
  IF x.s = 0 THEN FZero
  ELSE LET n == x.m * TwoTo(Precision + 2)
       IN FRound(x.s * y.s, n \div y.m, x.e - y.e - (Precision + 2), n % y.m # 0)

\* x + y: an operand below a quarter of the other's last bit does not count
FAdd(x, y) ==
  IF x.s = 0 THEN y
  ELSE IF y.s = 0 THEN x
  ELSE IF x.e - y.e > Precision + 2 THEN x
  ELSE IF y.e - x.e > Precision + 2 THEN y
  ELSE LET low == IF x.e < y.e THEN x.e ELSE y.e
           total == x.s * x.m * TwoTo(x.e - low) + y.s * y.m * TwoTo(y.e - low)
       IN IF total = 0 THEN FZero ELSE FRound(Sign(total), Abs(total), low, FALSE)

FSub(x, y) == FAdd(x, FNeg(y))

\* x < y, x <= y
FLess(x, y) == FSub(x, y).s < 0

FLessEq(x, y) == ~FLess(y, x)

\* the values of the flags r, ra and rn: (16 + k) / 64
FlagVals == { FRound(1, 16 + k, 0 - 6, FALSE) : k \in 0..MaxFlag }

\* the distances: zero and the numbers of Precision bits in [1/4, 2)
DistVals ==
  {FZero} \cup
  { [s |-> 1, m |-> m, e |-> e] :
      m \in TwoTo(Precision - 1)..(TwoTo(Precision) - 1),
      e \in (0 - Precision - 1)..(1 - Precision) }

\* (d/ra - 1)**2
AdhesiveFactor(d, ra) ==
  LET x == FSub(FDiv(d, ra), FromInt(1)) IN FMul(x, x)

AdhesiveForcePositive(d) ==
  LET ra == FMul(FromInt(2), flags.ra)
  IN IF FLess(FZero, d) /\ FLess(d, ra) THEN AdhesiveFactor(d, ra) ELSE FZero

AdhesiveForce(d) ==
  LET ra == FMul(FromInt(2), flags.ra)
      factor == IF FLess(FZero, d) /\ FLess(d, ra) THEN AdhesiveFactor(d, ra)
                ELSE FZero
  IN FNeg(factor)

\* -(rn*d/(r*r)-2*d/r+1), the factor for 0 < d < rn
NuclearFactor(d, r, rn) ==
  FNeg(FAdd(FSub(FDiv(FMul(rn, d), FMul(r, r)), FDiv(FMul(FromInt(2), d), r)),
            FromInt(1)))

\* -(d*d/(r*r)-2*d/r+1), the factor for rn <= d <= r
OuterFactor(d, r) ==
  FNeg(FAdd(FSub(FDiv(FMul(d, d), FMul(r, r)), FDiv(FMul(FromInt(2), d), r)),
            FromInt(1)))

RepulsiveForce(d) ==
  LET r == FMul(FromInt(2), flags.r)
      rn == FMul(FromInt(2), flags.rn)
      factor == IF FLess(FZero, d) /\ FLess(d, rn) THEN NuclearFactor(d, r, rn)
                ELSE IF FLessEq(rn, d) /\ FLessEq(d, r) THEN OuterFactor(d, r)
                ELSE FZero
  IN FNeg(factor)

\* the variables forces.py leaves alone
notForces ==
  <<fs, metadata, translated, printed, argv, args, loaded, N, results_dir,
    overwrite, folder, files, callVars, scriptVars, fitVars>>

\* main is started with flags 0 < rn <= r <= ra, ca = 0.1 and cr = 1; of the
\* distances np.arange(0.001, FLAGS.ra * 2.1, 0.01) the model follows one,
\* which may be any number of DistVals
InitForces ==
  /\ prog = "forces"
  /\ pc = "adhesive_forces"
  /\ \E r \in FlagVals, ra \in FlagVals, rn \in FlagVals :
       /\ FLessEq(rn, r) /\ FLessEq(r, ra)
       /\ flags = [r |-> r, ra |-> ra, rn |-> rn,
                   ca |-> FDiv(FromInt(1), FromInt(10)), cr |-> FromInt(1)]
  /\ \E d \in DistVals : distances = <<d>>
  /\ adhesive_forces = <<>> /\ repulsive_forces = <<>> /\ total_forces = <<>>
  /\ fs = <<>> /\ metadata = <<>> /\ translated = <<>> /\ printed = <<>>
  /\ argv = <<>> /\ args = <<>> /\ loaded = FALSE
  /\ N = 0 /\ results_dir = <<"absent">> /\ overwrite = ""
  /\ folder = <<>> /\ files = <<>>
  /\ CallsIdle /\ ScriptIdle /\ FitIdle

\* main: adhesive_forces = np.array([AdhesiveForce(d) for d in distances])
AdhesiveForces ==
  /\ prog = "forces" /\ pc = "adhesive_forces"
  /\ adhesive_forces' = [k \in DOMAIN distances |-> AdhesiveForce(distances[k])]
  /\ pc' = "repulsive_forces"
  /\ UNCHANGED <<prog, flags, distances, repulsive_forces, total_forces, notForces>>

\* main: repulsive_forces = np.array([RepulsiveForce(d) for d in distances])
RepulsiveForces ==
  /\ prog = "forces" /\ pc = "repulsive_forces"
  /\ repulsive_forces' = [k \in DOMAIN distances |-> RepulsiveForce(distances[k])]
  /\ pc' = "total_forces"
  /\ UNCHANGED <<prog, flags, distances, adhesive_forces, total_forces, notForces>>

\* main: total_forces = FLAGS.ca * adhesive_forces + FLAGS.cr * repulsive_forces
TotalForces ==
  /\ prog = "forces" /\ pc = "total_forces"
  /\ total_forces' =
       [k \in DOMAIN distances |->
          FAdd(FMul(flags.ca, adhesive_forces[k]), FMul(flags.cr, repulsive_forces[k]))]
  /\ pc' = "show"
  /\ UNCHANGED <<prog, flags, distances, adhesive_forces, repulsive_forces, notForces>>

\* main: the curves are plotted and shown
ShowForces ==
  /\ prog = "forces" /\ pc = "show"
  /\ pc' = "done"
  /\ UNCHANGED <<prog, flags, forceVars, notForces>>

NextForces == AdhesiveForces \/ RepulsiveForces \/ TotalForces \/ ShowForces

SpecForces == InitForces /\ [][NextForces]_vars

(* Properties of forces.py *)

ForcesRun == prog = "forces"

ForcesDone == ForcesRun /\ pc \in {"total_forces", "show", "done"}

\* 2 * FLAGS.r, 2 * FLAGS.ra, 2 * FLAGS.rn
TwiceFlag(x) == FMul(FromInt(2), x)

\* the adhesive force is at most 0 and is 0 from 2 * ra on; the repulsive
\* force is 0 beyond 2 * r; the two branches of the repulsive force agree at
\* d = 2 * rn
ForcesShape ==
  /\ \A k \in DOMAIN distances :
       /\ adhesive_forces[k].s <= 0
       /\ FLessEq(TwiceFlag(flags.ra), distances[k]) => adhesive_forces[k] = FZero
       /\ FLess(TwiceFlag(flags.r), distances[k]) => repulsive_forces[k] = FZero
  /\ NuclearFactor(TwiceFlag(flags.rn), TwiceFlag(flags.r), TwiceFlag(flags.rn))
       = OuterFactor(TwiceFlag(flags.rn), TwiceFlag(flags.r))

TwoUlp == [s |-> 1, m |-> TwoTo(Precision - 1), e |-> 3 - 2 * Precision]

====
